---- MODULE Spec2Model ----
(***************************************************************************)
(* The benchmark runner of the WebAssembly-vs-JavaScript harness:          *)
(*   TestRunner              (src/test/runner.js)                          *)
(*   TestRunnerWithDatabase  (src/unnamed/part_003, lines 819-1173)        *)
(*   the node-tests driver   (src/test/node-tests.js)                      *)
(* One run is modelled: a driver submits the configurations (sizes) one    *)
(* after the other to runner.runTest.  The two implementations, the        *)
(* validator, the file system and the database are the environment; their  *)
(* outcomes are drawn from small sets.  The program is single threaded:    *)
(* pc is the position of the one flow of control, each action is the code  *)
(* between two suspension/observation points.                              *)
(***************************************************************************)
EXTENDS Integers, Sequences, FiniteSets, TLC

\* ------------------------------------------------------------------ bounds
\* largest iteration count a caller passes to runTest
MaxIter == 2
\* significant bits of the number format (an IEEE 754 double has 53)
Precision == 3
\* the exponents of the number format are -MaxExponent..MaxExponent
MaxExponent == 10
\* calculateStats on its own: the largest sample and the longest sample sequence
MaxSample == 4
MaxSamples == 4
\* the statistics step of runTest on its own: the longest pair of timing series
MaxSeries == 2
\* calculateMemoryUsage on its own: the largest value of a field of a measurement
MaxBytes == 1
\* how many times runCompleteBenchmark is called on one runner
MaxRounds == 2
\* os.freemem() lies in 0..MaxFreeMemory
MaxFreeMemory == 1
\* how many times saveBenchmarkResults is called on one DatabaseManager
MaxSaves == 2
\* benchmarkData.results holds at most MaxResults results, each with at most
\* MaxMemorySamples memory samples per implementation, and the host has
\* MaxCpus cpus
MaxResults == 2
MaxMemorySamples == 2
MaxCpus == 1
\* TEST_CONFIGS holds at most MaxAlgorithms algorithms
MaxAlgorithms == 3
\* elapsed milliseconds one runAlgorithm call may take (performance.now() difference)
Times == {0, 1}
\* what an implementation may resolve with: a non-array, or a matrix of 1 or 2 rows
Outputs ==
  { [isArray |-> FALSE, length |-> 0],
    [isArray |-> TRUE,  length |-> 1],
    [isArray |-> TRUE,  length |-> 2] }
\* the validators a caller may pass: none (null), the node-tests shape validator,
\* a function returning undefined, a function that throws
Validators == {"none", "shape", "undef", "throws"}

\* ------------------------------------------------------------- the runners
\* The runner objects of the repository: which class, which exportResults the
\* object carries, and (TestRunnerWithDatabase) its options.
RunnerKinds ==
  { [class |-> "TestRunner", hook |-> "default", saveToJson |-> FALSE, saveToDatabase |-> FALSE],
    [class |-> "TestRunner", hook |-> "nodeTests", saveToJson |-> FALSE, saveToDatabase |-> FALSE],
    [class |-> "TestRunnerWithDatabase", hook |-> "db", saveToJson |-> TRUE, saveToDatabase |-> TRUE],
    [class |-> "TestRunnerWithDatabase", hook |-> "db", saveToJson |-> FALSE, saveToDatabase |-> TRUE],
    [class |-> "TestRunnerWithDatabase", hook |-> "db", saveToJson |-> TRUE, saveToDatabase |-> FALSE] }

\* a runner whose caller has set an exportResults that writes asynchronously: the
\* function returns a promise, which settles when the file is written
AsyncRunnerKinds ==
  { [class |-> "TestRunner", hook |-> "async", saveToJson |-> FALSE, saveToDatabase |-> FALSE] }

\* the size configurations the driver of a runner submits, in Object.entries order:
\* the sizes of runMatrixMultiplicationTest (node-tests.js), the sizes of
\* TEST_CONFIGS.matrix (runCompleteBenchmark), one size for a single runTest call
Sizes(r) ==
  IF r.hook = "nodeTests" THEN <<"small", "medium", "large">>
  ELSE IF r.hook \in {"db", "async"} THEN <<"small", "medium">>
  ELSE <<"small">>

\* every driver modelled is a Node.js script: process.memoryUsage exists
memApi == "process"

\* size label -> input handed to runAlgorithm (matrix dimension)
SizeValue(s) == CASE s = "small" -> 50 [] s = "medium" -> 500 [] OTHER -> 2000

VARIABLES
  runner,            \* the runner object (class, hook, options)
  iterations,        \* the iterations argument of every runTest of the run
  validator,         \* the validator argument of every runTest of the run
  elapsed,           \* the time one runAlgorithm call of each implementation takes
  dirExists,         \* whether the results directory exists
  diskFull,          \* whether fs.writeFileSync fails (once full, the disk stays full)
  hostHeap,          \* heapUsed of the host process
  pc,                \* position of the flow of control
  next,              \* index into Sizes of the next configuration to submit
  cfg,               \* arguments of the runTest in progress
  i,                 \* loop variable of runTest
  metrics,           \* the metrics object of the runTest in progress
  wasmResult, jsResult,               \* per-iteration locals (<<>>: out of scope)
  wasmMemoryBefore, jsMemoryBefore,   \* per-iteration locals (<<>>: out of scope)
  error,             \* the failure the runTest in progress rejected with
  allResults,        \* TestRunnerWithDatabase.allResults
  nodeResults,       \* results.results of node-tests.js
  writes,            \* the JSON payloads written, in order: the results array of each
  dbSaved,           \* the results arrays handed to a successful database save
  returns,           \* what each runTest call gave its caller, in order
  inFlight,          \* implementations whose runAlgorithm is running
  calls,             \* runAlgorithm invocations of the runTest in progress
  callArgs,          \* the inputs those invocations were given
  events,            \* what the runTest in progress did, in order
  validatorLog,      \* validator invocations of the runTest in progress
  hookLog            \* exportResults invocations of the run

VARIABLES
  freeMemory,        \* os.freemem() of the host
  nodeEnv,           \* results.environment of node-tests.js (<<>>: not captured yet)
  envLog,            \* the environment record carried by each export of the run, in order
  round,             \* how many runCompleteBenchmark calls the runner has had
  originalResults,   \* originalResults of runCompleteBenchmark (<<>>: not in the save)
  pendingExports,    \* sizes whose asynchronous exportResults has not settled yet
  db,                \* the PostgreSQL pool and server, and the saveBenchmarkResults in progress
  call,              \* the function invocation under check: its name and arguments
  result             \* what that invocation returned

vars == << db, pendingExports, freeMemory, nodeEnv, envLog, round, originalResults, call, result, runner, iterations, validator, elapsed, dirExists, diskFull, hostHeap, pc, next, cfg, i, metrics,
           wasmResult, jsResult, wasmMemoryBefore, jsMemoryBefore, error,
           allResults, nodeResults, writes, dbSaved, returns,
           inFlight, calls, callArgs, events, validatorLog, hookLog >>

params   == << runner, iterations, validator >>
locals   == << wasmResult, jsResult, wasmMemoryBefore, jsMemoryBefore >>
stores   == << allResults, nodeResults, writes, dbSaved >>
pure     == << call, result >>
host     == << freeMemory, round, pendingExports, db >>

\* ------------------------------------------------------------ pure helpers
\* A JavaScript number is the record [num, den]: the rational num/den when
\* den > 0 (kept in lowest terms), NaN when both are 0, Infinity when only den
\* is 0.  Arithmetic rounds as IEEE 754 does (to nearest, ties to even), to
\* Precision significant bits instead of the 53 of a double.
NaN == [num |-> 0, den |-> 0]
Infinity == [num |-> 1, den |-> 0]
FromInt(n) == [num |-> n, den |-> 1]
isNaN(q) == q.num = 0 /\ q.den = 0
isPositive(q) == q.num > 0
Abs(n) == IF n < 0 THEN 0 - n ELSE n

Pow2(k) == 2 ^ k
\* 2^e and 2^-e, 1 where that is a fraction
Up(e) == Pow2(IF e > 0 THEN e ELSE 0)
Down(e) == Pow2(IF e < 0 THEN 0 - e ELSE 0)

\* the exponent e with 2^(Precision-1) <= a/(b * 2^e) < 2^Precision, for a, b > 0
ExponentOf(a, b) ==
  CHOOSE e \in (0 - MaxExponent)..MaxExponent :
    /\ a * Down(e) >= Pow2(Precision - 1) * b * Up(e)
    /\ a * Down(e) < Pow2(Precision) * b * Up(e)

\* the integer nearest to A/B, the even one of two equally near
Nearest(A, B) ==
  IF 2 * (A % B) > B \/ (2 * (A % B) = B /\ (A \div B) % 2 = 1)
  THEN (A \div B) + 1 ELSE A \div B

\* the largest x for which 2^x divides m and d, d a power of two
TwoPart(m, d) ==
  CHOOSE x \in 0..MaxExponent :
    /\ m % Pow2(x) = 0 /\ d % Pow2(x) = 0
    /\ m % Pow2(x + 1) # 0 \/ d % Pow2(x + 1) # 0

\* m/d in lowest terms, d a power of two
Lowest(m, d, x) == [num |-> m \div Pow2(x), den |-> d \div Pow2(x)]
Reduce(m, d) == Lowest(m, d, TwoPart(m, d))

\* the multiple of 2^e nearest to a/b, for a, b > 0
RoundAt(a, b, e) == Reduce(Nearest(a * Down(e), b * Up(e)) * Up(e), Down(e))
Negate(x) == [num |-> 0 - x.num, den |-> x.den]

\* the rational a/b (b > 0) rounded to Precision significant bits, ties to even
Round(a, b) ==
  IF a = 0 THEN FromInt(0)
  ELSE IF a < 0 THEN Negate(RoundAt(0 - a, b, ExponentOf(0 - a, b)))
  ELSE RoundAt(a, b, ExponentOf(a, b))

\* x + y, x - y, x * y of finite numbers, and x / y
Add(x, y) == Round(x.num * y.den + y.num * x.den, x.den * y.den)
Sub(x, y) == Round(x.num * y.den - y.num * x.den, x.den * y.den)
Mul(x, y) == Round(x.num * y.num, x.den * y.den)
Div(x, y) ==
  IF isNaN(x) \/ isNaN(y) THEN NaN
  ELSE IF y.num = 0 THEN (IF x.num = 0 THEN NaN ELSE Infinity)
  ELSE IF y.num < 0 THEN Round(0 - x.num * y.den, x.den * (0 - y.num))
  ELSE Round(x.num * y.den, x.den * y.num)

\* numbers.reduce((a, b) => a + b, 0): the additions are made, and rounded, from
\* left to right
RECURSIVE SumSeq(_)
SumSeq(s) ==
  IF s = <<>> THEN FromInt(0)
  ELSE Add(SumSeq(SubSeq(s, 1, Len(s) - 1)), s[Len(s)])

\* times.map(value => { const diff = value - mean; return diff * diff; })
squareDiffs(times, mean) ==
  [k \in DOMAIN times |-> LET diff == Sub(FromInt(times[k]), mean) IN Mul(diff, diff)]

\* insertion of x into the ascending sequence s
RECURSIVE Insert(_, _)
Insert(x, s) ==
  IF s = <<>> THEN <<x>>
  ELSE IF x <= Head(s) THEN <<x>> \o s
  ELSE <<Head(s)>> \o Insert(x, Tail(s))

\* [...times].sort((a, b) => a - b): an ascending copy
RECURSIVE SortAsc(_)
SortAsc(s) == IF s = <<>> THEN <<>> ELSE Insert(Head(s), SortAsc(Tail(s)))

\* sorted[k] with k counted from 1
AtOneBased(sorted, k) == IF k \in DOMAIN sorted THEN <<sorted[k]>> ELSE <<>>

\* sorted[k] of a JavaScript array (0-based): <<v>>, or <<>> for undefined
At(sorted, k) == IF k + 1 \in DOMAIN sorted THEN <<sorted[k + 1]>> ELSE <<>>

\* TestRunner.calculateStats.  The samples are integers the number format holds
\* exactly; mean is sum / times.length (0/0 is NaN); variance is avgSquareDiff,
\* of which stdDev is the square root (0 exactly when variance is 0); median,
\* p95, p99 index the sorted copy.
calculateStats(times) ==
  LET n      == Len(times)
      sum    == SumSeq([k \in DOMAIN times |-> FromInt(times[k])])
      mean   == Div(sum, FromInt(n))
      sorted == SortAsc(times)
  IN  [ min      |-> At(sorted, 0),
        max      |-> At(sorted, n - 1),
        mean     |-> mean,
        median   |-> At(sorted, n \div 2),
        variance |-> Div(SumSeq(squareDiffs(times, mean)), FromInt(n)),
        p95      |-> At(sorted, (n * 95) \div 100),
        p99      |-> At(sorted, (n * 99) \div 100) ]

\* TestRunner.measureMemory
measureMemory(api, heap) ==
  IF api = "process"
  THEN [unavailable |-> FALSE, heapUsed |-> heap, heapTotal |-> heap, external |-> 0, rss |-> heap]
  ELSE [unavailable |-> TRUE]

\* calculateMemoryUsage with zeros in place of the sentinel
calculateMemoryUsageZeros(before, after) ==
  IF before.unavailable \/ after.unavailable
  THEN [unavailable |-> FALSE, heapUsed |-> 0, heapTotal |-> 0, external |-> 0, rss |-> 0]
  ELSE [unavailable |-> FALSE,
        heapUsed  |-> after.heapUsed - before.heapUsed,
        heapTotal |-> after.heapTotal - before.heapTotal,
        external  |-> after.external - before.external,
        rss       |-> after.rss - before.rss]

\* TestRunner.calculateMemoryUsage
calculateMemoryUsage(before, after) ==
  IF before.unavailable \/ after.unavailable
  THEN [unavailable |-> TRUE]
  ELSE [unavailable |-> FALSE,
        heapUsed  |-> after.heapUsed - before.heapUsed,
        heapTotal |-> after.heapTotal - before.heapTotal,
        external  |-> after.external - before.external,
        rss       |-> after.rss - before.rss]

\* calculateStats(memory.map(m => m.heapUsed)): an unavailable sample has no heapUsed,
\* the sum is NaN and the sorted copy holds only undefined
memoryStats(memory) ==
  IF \E k \in DOMAIN memory : memory[k].unavailable
  THEN [ min |-> <<>>, max |-> <<>>, mean |-> NaN, median |-> <<>>,
         variance |-> NaN, p95 |-> <<>>, p99 |-> <<>> ]
  ELSE calculateStats([k \in DOMAIN memory |-> memory[k].heapUsed])

\* the quotient jsStats.mean / wasmStats.mean with wasm and js exchanged
speedupInverted(jsStats, wasmStats) == Div(wasmStats.mean, jsStats.mean)

\* metrics.speedup = jsStats.mean / wasmStats.mean: 0/0 is NaN, a positive mean
\* over 0 is Infinity
speedupOf(jsStats, wasmStats) == Div(jsStats.mean, wasmStats.mean)

\* the validator of node-tests.js
shapeValidator(w, j) ==
  IF ~w.isArray \/ ~j.isArray
  THEN [success |-> FALSE, discrepancies |-> <<"Results are not matrices">>]
  ELSE IF w.length # j.length
  THEN [success |-> FALSE, discrepancies |-> <<"Matrix dimensions do not match">>]
  ELSE [success |-> TRUE, discrepancies |-> <<>>]

\* ------------------------------------------------------- the validators
\* What an implementation may resolve with, as a JavaScript value: undefined,
\* null, a number (value), or an array (items, values themselves).
Undefined == [kind |-> "undefined", value |-> NaN, items |-> <<>>]
Null == [kind |-> "null", value |-> NaN, items |-> <<>>]
Num(n) == [kind |-> "number", value |-> FromInt(n), items |-> <<>>]
NaNValue == [kind |-> "number", value |-> NaN, items |-> <<>>]
Arr(items) == [kind |-> "array", value |-> NaN, items |-> items]
\* an n x n matrix filled with v
Matrix(n, v) == Arr([r \in 1..n |-> Arr([c \in 1..n |-> Num(v)])])

isArray(v) == v.kind = "array"
\* !v: undefined, null, 0 and NaN
Falsy(v) == v.kind \in {"undefined", "null"} \/ (v.kind = "number" /\ v.value.num = 0)
\* v[k] evaluates (v is neither undefined nor null)
CanIndex(v) == v.kind \notin {"undefined", "null"}
\* v[k], k counted from 0: undefined beyond the items, and on a number
Index(v, k) == IF isArray(v) /\ k + 1 \in DOMAIN v.items THEN v.items[k + 1] ELSE Undefined
\* v.length of an array
Length(v) == Len(v.items)

\* the number a value converts to in arithmetic: Number(null) is 0, Number([]) is
\* 0, Number([x]) is Number(x), a longer array and undefined give NaN
RECURSIVE ToNumber(_)
ToNumber(v) ==
  CASE v.kind = "number" -> v.value
    [] v.kind = "null" -> FromInt(0)
    [] v.kind = "undefined" -> NaN
    [] OTHER -> IF Len(v.items) = 0 THEN FromInt(0)
                ELSE IF Len(v.items) = 1 THEN ToNumber(v.items[1])
                ELSE NaN

NumAbs(x) == [num |-> Abs(x.num), den |-> x.den]
\* Math.max of two numbers: NaN when one of them is
Max2(x, y) ==
  IF isNaN(x) \/ isNaN(y) THEN NaN
  ELSE IF x.num * y.den >= y.num * x.den THEN x ELSE y
\* x > y and x < y of JavaScript: false when one side is NaN
Greater(x, y) == ~isNaN(x) /\ ~isNaN(y) /\ x.num * y.den > y.num * x.den
Less(x, y) == Greater(y, x)
AbsDiff(x, y) == IF isNaN(x) \/ isNaN(y) THEN NaN ELSE NumAbs(Sub(x, y))

\* Math.abs(a - b) / Math.max(Math.abs(a), Math.abs(b), 1e-10): with both at 0 the
\* divisor is 1e-10 and the quotient 0
RelDiffEps(a, b) ==
  LET d == Max2(NumAbs(a), NumAbs(b))
  IN  IF isNaN(d) THEN NaN
      ELSE IF d.num = 0 THEN FromInt(0)
      ELSE Div(AbsDiff(a, b), d)
\* Math.abs(a - b) / Math.max(Math.abs(a), Math.abs(b)): 0/0 is NaN
RelDiff(a, b) == Div(AbsDiff(a, b), Max2(NumAbs(a), NumAbs(b)))

Tolerance(n, d) == [num |-> n, den |-> d]
failure(text) == [threw |-> FALSE, success |-> FALSE, discrepancies |-> <<text>>]
outcome(discrepancies, limit) ==
  [ threw |-> FALSE, success |-> Len(discrepancies) = 0,
    discrepancies |-> SubSeq(discrepancies, 1, IF Len(discrepancies) < limit
                                                THEN Len(discrepancies) ELSE limit) ]
TypeError == [threw |-> TRUE, success |-> FALSE, discrepancies |-> <<>>]

\* TEST_CONFIGS.matrix.validator: the outputs are single numbers
matrixValidator(w, j) ==
  IF w.kind \in {"undefined", "null"} \/ j.kind \in {"undefined", "null"}
  THEN failure("One or both results are undefined/null")
  ELSE LET tolerance == Tolerance(1, 1000000)
           diff == RelDiffEps(ToNumber(w), ToNumber(j))
       IN  [ threw |-> FALSE,
             success |-> Less(diff, tolerance),
             discrepancies |-> IF ~isNaN(diff) /\ ~Less(diff, tolerance)
                               THEN <<"Result mismatch">> ELSE <<>> ]

\* TEST_CONFIGS.fft.validator
fftValidator(w, j) ==
  IF Falsy(w) \/ Falsy(j) THEN failure("One or both results are undefined/null")
  ELSE IF ~isArray(w) \/ ~isArray(j) THEN failure("Results are not arrays")
  ELSE IF Length(w) # Length(j) THEN failure("Array length mismatch")
  ELSE LET entry(k) ==
             LET a == ToNumber(Index(w, k - 1))
                 b == ToNumber(Index(j, k - 1))
             IN  IF isNaN(a) \/ isNaN(b) THEN "Contains NaN"
                 ELSE IF Greater(RelDiffEps(a, b), Tolerance(1, 100)) THEN "Mismatch"
                 ELSE ""
           all == [k \in 1..Length(w) |-> entry(k)]
       IN  outcome(SelectSeq(all, LAMBDA t : t # ""), 3)

\* TEST_CONFIGS.integration.validator
integrationValidator(w, j) ==
  IF ~isArray(w) \/ ~isArray(j) THEN failure("Results are not arrays")
  ELSE LET n == IF Length(w) < Length(j) THEN Length(w) ELSE Length(j)
           entry(k) ==
             IF Greater(RelDiff(ToNumber(Index(w, k - 1)), ToNumber(Index(j, k - 1))),
                        Tolerance(1, 100))
             THEN "Mismatch" ELSE ""
           all == [k \in 1..n |-> entry(k)]
       IN  outcome(SelectSeq(all, LAMBDA t : t # ""), 3)

\* the validator of runCsvParserTest (test-csv.js): record count, total size and
\* average value, elements 0, 1 and 2
csvValidator(w, j) ==
  IF ~isArray(w) \/ ~isArray(j) THEN failure("Results are not arrays")
  ELSE IF Length(w) # Length(j) THEN failure("Array lengths do not match")
  ELSE LET a(k) == ToNumber(Index(w, k))
           b(k) == ToNumber(Index(j, k))
           plain(k) == Div(AbsDiff(a(k), b(k)), Max2(a(k), b(k)))
           count == IF Greater(plain(0), Tolerance(1, 10))
                    THEN <<"Record count mismatch">> ELSE <<>>
           size  == IF Greater(plain(1), Tolerance(1, 10))
                    THEN <<"Size mismatch">> ELSE <<>>
           avg   == IF Greater(RelDiff(a(2), b(2)), Tolerance(1, 100))
                    THEN <<"Average value1 mismatch">> ELSE <<>>
       IN  outcome(count \o size \o avg, 5)

\* Math.min(10, dimensions) of the validator of runBenchmark
SampleCap == 10
sampleSize(dimensions) == IF dimensions < SampleCap THEN dimensions ELSE SampleCap

\* the validator runBenchmark passes to runTest: wasmResult[i][j] throws when row
\* i is undefined; no limit is put on the discrepancies
runBenchmarkValidator(dimensions, w, j) ==
  IF ~isArray(w) \/ ~isArray(j) THEN failure("Results are not matrices")
  ELSE IF Length(w) # Length(j) THEN failure("Matrix dimensions do not match")
  ELSE LET n == sampleSize(dimensions)
       IN  IF \E r \in 0..(n - 1) : ~CanIndex(Index(w, r)) \/ ~CanIndex(Index(j, r))
           THEN TypeError
           ELSE LET cell(k) ==
                      LET r == (k - 1) \div n
                          c == (k - 1) % n
                      IN  IF Greater(AbsDiff(ToNumber(Index(Index(w, r), c)),
                                             ToNumber(Index(Index(j, r), c))),
                                     Tolerance(1, 10000))
                          THEN "Mismatch" ELSE ""
                    all == [k \in 1..(n * n) |-> cell(k)]
                    discrepancies == SelectSeq(all, LAMBDA t : t # "")
                IN  [ threw |-> FALSE, success |-> Len(discrepancies) = 0,
                      discrepancies |-> discrepancies ]

\* the validators of the repository, by name
ValidatorNames == {"matrix", "fft", "integration", "csv", "runBenchmark"}
validate(name, w, j) ==
  CASE name = "matrix" -> matrixValidator(w, j)
    [] name = "fft" -> fftValidator(w, j)
    [] name = "integration" -> integrationValidator(w, j)
    [] name = "csv" -> csvValidator(w, j)
    [] OTHER -> runBenchmarkValidator(SizeValue("small"), w, j)

\* a function object, as a JavaScript value
Function == [kind |-> "function", value |-> NaN, items |-> <<>>]
\* the properties every object literal inherits from Object.prototype
ObjectPrototypeKeys == {"constructor", "toString", "valueOf", "hasOwnProperty"}

\* sizeMap[size] of runBenchmark: the three own properties of the literal, the
\* functions it inherits, undefined for any other key
sizeMap(size) ==
  CASE size = "small" -> Num(50)
    [] size = "medium" -> Num(500)
    [] size = "large" -> Num(2000)
    [] size \in ObjectPrototypeKeys -> Function
    [] OTHER -> Undefined

\* TestRunner.runBenchmark up to its call of runTest: the error it throws, or the
\* arguments of the runTest it awaits (<<>>: runTest is not called)
runBenchmark(algorithm, size, n) ==
  LET dimensions == sizeMap(size)
  IN  IF Falsy(dimensions)
      THEN [threw |-> TRUE, error |-> "Invalid size: " \o size, runTest |-> <<>>]
      ELSE [threw |-> FALSE, error |-> "",
            runTest |-> << [ algorithm |-> algorithm, type |-> "math", size |-> size,
                             testData |-> dimensions, iterations |-> n,
                             validator |-> "runBenchmark" ] >>]

\* the metrics object runTest starts from
newMetrics(c) ==
  [ algorithm |-> c.algorithm, type |-> c.type, size |-> c.size,
    wasmTimes |-> <<>>, jsTimes |-> <<>>, wasmMemory |-> <<>>, jsMemory |-> <<>>,
    validationResults |-> [success |-> TRUE, discrepancies |-> <<>>] ]

\* the caller's array after a calculateStats that sorts its argument in place
timesSortedInPlace(times) == SortAsc(times)

\* the caller's array after calculateStats(times): the function sorts
\* [...times], a copy, and assigns to no element of times
timesAfterStats(times) == times

\* the metrics object after the statistics were added
withStats(m) ==
  LET ws == calculateStats(m.wasmTimes)
      js == calculateStats(m.jsTimes)
  IN  [ algorithm |-> m.algorithm, type |-> m.type, size |-> m.size,
        wasmTimes |-> timesAfterStats(m.wasmTimes),
        jsTimes |-> timesAfterStats(m.jsTimes),
        wasmMemory |-> m.wasmMemory, jsMemory |-> m.jsMemory,
        validationResults |-> m.validationResults,
        wasmStats |-> ws, jsStats |-> js,
        wasmMemoryStats |-> memoryStats(m.wasmMemory),
        jsMemoryStats |-> memoryStats(m.jsMemory),
        speedup |-> speedupOf(js, ws) ]

zeroStats ==
  [ min |-> <<0>>, max |-> <<0>>, mean |-> FromInt(0), median |-> <<0>>,
    variance |-> FromInt(0), p95 |-> <<0>>, p99 |-> <<0>> ]

\* an errorResult that carries no sign of the failure
errorResultUntagged(c, message) ==
  [ algorithm |-> c.algorithm, type |-> c.type, size |-> c.size,
    wasmTimes |-> <<>>, jsTimes |-> <<>>, wasmMemory |-> <<>>, jsMemory |-> <<>>,
    validationResults |-> [success |-> TRUE, discrepancies |-> <<>>],
    wasmStats |-> zeroStats, jsStats |-> zeroStats,
    wasmMemoryStats |-> zeroStats, jsMemoryStats |-> zeroStats,
    speedup |-> FromInt(0) ]

\* the errorResult of TestRunnerWithDatabase.runTest's catch
errorResult(c, message) ==
  [ algorithm |-> c.algorithm, type |-> c.type, size |-> c.size,
    wasmTimes |-> <<>>, jsTimes |-> <<>>, wasmMemory |-> <<>>, jsMemory |-> <<>>,
    validationResults |-> [success |-> FALSE,
                           discrepancies |-> <<"Test execution failed: " \o message>>],
    wasmStats |-> zeroStats, jsStats |-> zeroStats,
    wasmMemoryStats |-> zeroStats, jsMemoryStats |-> zeroStats,
    speedup |-> FromInt(0) ]

\* TestRunner.getEnvironmentInfo under Node.js: the fields that do not change
\* while the process runs are one constant, freeMemory is read from the host
getEnvironmentInfo(free) == [platform |-> "Node.js", freeMemory |-> free]

\* the environment literal of the results object of node-tests.js
resultsEnvironment(free) == [platform |-> "Node.js", freeMemory |-> free]

\* ---------------------------------------------------------- the database
\* DatabaseManager.saveBenchmarkResults issues its statements one after another on
\* one client of the pool.  A statement is the record [table, of, type, index]:
\* the table it inserts into, the position in benchmarkData.results of the result
\* it belongs to (0: none), the execution type and the cpu or iteration index.

\* saveTestRun(client, environmentId, result)
saveTestRun(r, res) == << [table |-> "test_runs", of |-> r, type |-> "", index |-> 0] >>

\* savePerformanceStats(client, testRunId, result, executionType)
savePerformanceStats(r, res, executionType) ==
  << [table |-> "performance_stats", of |-> r, type |-> executionType, index |-> 0] >>

\* the memory series saveMemoryMeasurements and saveMemoryStats read
memoryData(res, executionType) ==
  IF executionType = "wasm" THEN res.wasmMemory ELSE res.jsMemory

\* saveMemoryMeasurements that inserts a row for the first sample only
saveMemoryMeasurementsFirstOnly(r, res, executionType) ==
  [k \in 1..(IF Len(memoryData(res, executionType)) > 0 THEN 1 ELSE 0) |->
     [table |-> "memory_measurements", of |-> r, type |-> executionType, index |-> k - 1]]

\* saveMemoryMeasurements(client, testRunId, result, executionType): one INSERT
\* for each i from 0 below memoryData.length
saveMemoryMeasurements(r, res, executionType) ==
  [k \in 1..Len(memoryData(res, executionType)) |->
     [table |-> "memory_measurements", of |-> r, type |-> executionType, index |-> k - 1]]

\* saveMemoryStats(client, testRunId, result, executionType)
saveMemoryStats(r, res, executionType) ==
  << [table |-> "memory_stats", of |-> r, type |-> executionType, index |-> 0] >>

\* saveValidationResults(client, testRunId, result.validationResults)
saveValidationResults(r, res) ==
  << [table |-> "validation_results", of |-> r, type |-> "", index |-> 0] >>

\* the body of the loop over benchmarkData.results, for the result at position r
saveResult(r, res) ==
  saveTestRun(r, res)
  \o savePerformanceStats(r, res, "wasm") \o savePerformanceStats(r, res, "js")
  \o saveMemoryMeasurements(r, res, "wasm") \o saveMemoryMeasurements(r, res, "js")
  \o saveMemoryStats(r, res, "wasm") \o saveMemoryStats(r, res, "js")
  \o saveValidationResults(r, res)

\* for (const result of benchmarkData.results), from position r on
RECURSIVE saveResults(_, _)
saveResults(results, r) ==
  IF r > Len(results) THEN <<>>
  ELSE saveResult(r, results[r]) \o saveResults(results, r + 1)

\* saveEnvironmentInfo(client, benchmarkData)
saveEnvironmentInfo(data) ==
  << [table |-> "environment_info", of |-> 0, type |-> "", index |-> 0] >>

\* saveCpuInfo(client, environmentId, cpus): one INSERT per cpu
saveCpuInfo(data) ==
  [k \in 1..data.cpus |-> [table |-> "cpu_info", of |-> 0, type |-> "", index |-> k - 1]]

\* the INSERTs of saveBenchmarkResults between BEGIN and COMMIT, in order
statements(data) ==
  saveEnvironmentInfo(data) \o saveCpuInfo(data) \o saveResults(data.results, 1)

\* the pool and the server before any save: no client is out, no row is stored;
\* log holds, for each save, what was issued and how the call ended
DbIdle ==
  [ pc |-> "idle", data |-> <<>>, queue |-> <<>>, issued |-> <<>>, tx |-> <<>>,
    rows |-> <<>>, nextId |-> 1, environmentId |-> 0, testRunId |-> 0,
    acquired |-> 0, released |-> 0, error |-> "", log |-> <<>> ]

\* --------------------------------------------------------------- the run
\* the runner after its construction, before its driver starts
InitWith(kinds) ==
  /\ runner \in kinds
  /\ iterations \in 0..MaxIter
  /\ validator \in Validators
  /\ elapsed = [wasm |-> 0, js |-> 0]
  /\ dirExists \in (IF runner.hook = "db" THEN BOOLEAN ELSE {TRUE})
  /\ diskFull = FALSE
  /\ hostHeap = 0
  /\ pc = "start"
  /\ next = 1
  /\ cfg = [algorithm |-> "Matrix Multiplication", type |-> "math", size |-> "", testData |-> 0]
  /\ i = 0
  /\ metrics = newMetrics(cfg)
  /\ wasmResult = <<>> /\ jsResult = <<>>
  /\ wasmMemoryBefore = <<>> /\ jsMemoryBefore = <<>>
  /\ error = ""
  /\ allResults = <<>>
  /\ nodeResults = <<>>
  /\ writes = <<>>
  /\ dbSaved = <<>>
  /\ returns = <<>>
  /\ inFlight = {}
  /\ calls = [wasm |-> 0, js |-> 0]
  /\ callArgs = {}
  /\ events = <<>>
  /\ validatorLog = <<>>
  /\ hookLog = <<>>
  /\ freeMemory = 0
  /\ nodeEnv = <<>>
  /\ envLog = <<>>
  /\ round = 1
  /\ originalResults = <<>>
  /\ pendingExports = {}
  /\ db = DbIdle

InitRun == InitWith(RunnerKinds)

Init ==
  /\ InitRun
  /\ call = [fn |-> "none"]
  /\ result = <<>>

\* runCompleteBenchmark's prologue (allResults = []); node-tests.js builds its
\* results object, environment included, and writes the initial results file,
\* whose results array is empty.  A run begins: envLog restarts
Start ==
  /\ pc = "start"
  /\ IF runner.class = "TestRunnerWithDatabase"
     THEN /\ allResults' = <<>>
          /\ envLog' = <<>>
          /\ UNCHANGED << writes, nodeEnv >>
     ELSE IF runner.hook = "nodeTests"
     THEN /\ nodeEnv' = <<resultsEnvironment(freeMemory)>>
          /\ writes' = Append(writes, <<>>)
          /\ envLog' = <<resultsEnvironment(freeMemory)>>
          /\ UNCHANGED allResults
     ELSE UNCHANGED << allResults, writes, nodeEnv, envLog >>
  /\ pc' = "driver"
  /\ UNCHANGED << params, pure, host, originalResults, elapsed, dirExists, diskFull, hostHeap, next, cfg, i, metrics, locals, error, nodeResults,
                  dbSaved, returns, inFlight, calls, callArgs, events, validatorLog, hookLog >>

\* the driver's loop calls runner.runTest for the next size; runTest builds its
\* metrics object and enters its loop.  The environment of the configuration is
\* fixed here: the time one call of each implementation takes, and a heap the
\* host's collector has emptied
Submit ==
  /\ pc = "driver"
  /\ next <= Len(Sizes(runner))
  /\ LET s == Sizes(runner)[next]
         c == [algorithm |-> "Matrix Multiplication", type |-> "math",
               size |-> s, testData |-> SizeValue(s)]
     IN  /\ cfg' = c
         /\ metrics' = newMetrics(c)
  /\ elapsed' \in [wasm : Times, js : Times]
  /\ i' = 0
  /\ error' = ""
  /\ calls' = [wasm |-> 0, js |-> 0]
  /\ callArgs' = {}
  /\ events' = <<>>
  /\ validatorLog' = <<>>
  /\ pc' = "loop"
  /\ hostHeap' = 0
  /\ UNCHANGED << params, pure, host, originalResults, nodeEnv, envLog, dirExists, diskFull, next, locals, stores, returns, inFlight, hookLog >>

\* the loop condition off by one: i <= iterations
LoopContinuesInclusive(k, n) == k <= n

\* for (let i = 0; i < iterations; i++)
LoopContinues(k, n) == k < n

\* the call of wasm.runAlgorithm without its await: the flow goes on to the
\* JavaScript measurement while the WebAssembly call is running
WasmInvokeNoAwait ==
  /\ pc = "loop"
  /\ LoopContinues(i, iterations)
  /\ wasmMemoryBefore' = <<measureMemory(memApi, hostHeap)>>
  /\ wasmResult' = <<[isArray |-> FALSE, length |-> 0]>>
  /\ inFlight' = inFlight \cup {"wasm"}
  /\ calls' = [calls EXCEPT !.wasm = @ + 1]
  /\ callArgs' = callArgs \cup {cfg.testData}
  /\ events' = Append(events, <<"wasmStart", i>>)
  /\ metrics' = [metrics EXCEPT
       !.wasmTimes = Append(@, 0),
       !.wasmMemory = Append(@, calculateMemoryUsage(measureMemory(memApi, hostHeap),
                                                     measureMemory(memApi, hostHeap)))]
  /\ pc' = "jsInvoke"
  /\ UNCHANGED << params, pure, host, originalResults, nodeEnv, envLog, elapsed, dirExists, diskFull, hostHeap, next, cfg, i, jsResult,
                  jsMemoryBefore, error, stores, returns, validatorLog, hookLog >>

\* loop head, wasmMemoryBefore, and the call of this.wasm.runAlgorithm(testData)
WasmInvoke ==
  /\ pc = "loop"
  /\ LoopContinues(i, iterations)
  /\ wasmMemoryBefore' = <<measureMemory(memApi, hostHeap)>>
  /\ inFlight' = inFlight \cup {"wasm"}
  /\ calls' = [calls EXCEPT !.wasm = @ + 1]
  /\ callArgs' = callArgs \cup {cfg.testData}
  /\ events' = Append(events, <<"wasmStart", i>>)
  /\ pc' = "wasmAwait"
  /\ UNCHANGED << params, pure, host, originalResults, nodeEnv, envLog, elapsed, dirExists, diskFull, hostHeap, next, cfg, i, metrics, wasmResult, jsResult,
                  jsMemoryBefore, error, stores, returns, validatorLog, hookLog >>

\* the await resumes with a value: wasmMemoryAfter, the two pushes
WasmResolve ==
  /\ pc = "wasmAwait"
  /\ \E out \in Outputs :
       /\ wasmResult' = <<out>>
       /\ hostHeap' = hostHeap + 1
       /\ metrics' = [metrics EXCEPT
            !.wasmTimes = Append(@, elapsed.wasm),
            !.wasmMemory = Append(@, calculateMemoryUsage(wasmMemoryBefore[1],
                                                          measureMemory(memApi, hostHeap + 1)))]
  /\ inFlight' = inFlight \ {"wasm"}
  /\ events' = events \o << <<"wasmEnd", i>>, <<"wasmSnapshot", i>> >>
  /\ pc' = "jsInvoke"
  /\ UNCHANGED << params, pure, host, originalResults, nodeEnv, envLog, elapsed, dirExists, diskFull, next, cfg, i, jsResult, wasmMemoryBefore, jsMemoryBefore, error,
                  stores, returns, calls, callArgs, validatorLog, hookLog >>

\* the failure swallowed: the loop goes on and runs the trial again
RetryOnImplementationFailure == "loop"

\* where runTest goes when an awaited runAlgorithm rejects: it has no try/catch
OnImplementationFailure == "rejected"

\* an exception leaves the loop body: the block's constants go out of scope
Unwind ==
  /\ wasmResult' = <<>> /\ jsResult' = <<>>
  /\ wasmMemoryBefore' = <<>> /\ jsMemoryBefore' = <<>>

\* the await rethrows the rejection of wasm.runAlgorithm
WasmReject ==
  /\ pc = "wasmAwait"
  /\ inFlight' = inFlight \ {"wasm"}
  /\ events' = Append(events, <<"wasmReject", i>>)
  /\ error' = "wasm.runAlgorithm failed"
  /\ pc' = OnImplementationFailure
  /\ Unwind
  /\ UNCHANGED << params, pure, host, originalResults, nodeEnv, envLog, elapsed, dirExists, diskFull, hostHeap, next, cfg, i, metrics, stores, returns,
                  calls, callArgs, validatorLog, hookLog >>

\* jsMemoryBefore and the call of this.js.runAlgorithm(testData)
JsInvoke ==
  /\ pc = "jsInvoke"
  /\ jsMemoryBefore' = <<measureMemory(memApi, hostHeap)>>
  /\ inFlight' = inFlight \cup {"js"}
  /\ calls' = [calls EXCEPT !.js = @ + 1]
  /\ callArgs' = callArgs \cup {cfg.testData}
  /\ events' = Append(events, <<"jsStart", i>>)
  /\ pc' = "jsAwait"
  /\ UNCHANGED << params, pure, host, originalResults, nodeEnv, envLog, elapsed, dirExists, diskFull, hostHeap, next, cfg, i, metrics, wasmResult, jsResult,
                  wasmMemoryBefore, error, stores, returns, validatorLog, hookLog >>

\* the await rethrows the rejection of js.runAlgorithm
JsReject ==
  /\ pc = "jsAwait"
  /\ inFlight' = inFlight \ {"js"}
  /\ events' = Append(events, <<"jsReject", i>>)
  /\ error' = "js.runAlgorithm failed"
  /\ pc' = OnImplementationFailure
  /\ Unwind
  /\ UNCHANGED << params, pure, host, originalResults, nodeEnv, envLog, elapsed, dirExists, diskFull, hostHeap, next, cfg, i, metrics, stores, returns,
                  calls, callArgs, validatorLog, hookLog >>

\* the validation without its i === 0: every iteration validates
ShouldValidateEveryTrial(v, k) == v # "none"

\* if (validator && i === 0)
ShouldValidate(v, k) == v # "none" /\ k = 0

\* the validation result stored without its discrepancies
storeValidationSuccessOnly(m, vr) ==
  [m EXCEPT !.validationResults = [success |-> vr.success, discrepancies |-> @.discrepancies]]

\* metrics.validationResults after the validator returned vr
storeValidation(m, vr) ==
  [m EXCEPT !.validationResults =
     [success |-> vr.success,
      discrepancies |-> IF ~vr.success THEN vr.discrepancies ELSE @.discrepancies]]

\* metrics after the await of js.runAlgorithm resumed: jsMemoryAfter, the two pushes
jsMeasured(m) ==
  [m EXCEPT
     !.jsTimes = Append(@, elapsed.js),
     !.jsMemory = Append(@, calculateMemoryUsage(jsMemoryBefore[1],
                                                 measureMemory(memApi, hostHeap + 1)))]

\* the end of the loop body: i++, the block's constants go out of scope
EndIteration ==
  /\ i' = i + 1
  /\ wasmResult' = <<>> /\ jsResult' = <<>>
  /\ wasmMemoryBefore' = <<>> /\ jsMemoryBefore' = <<>>
  /\ pc' = "loop"

\* The await of js.runAlgorithm resumes with a value and the rest of the loop body
\* runs: the measurement is pushed; no validator, or not the first iteration
JsResolve ==
  /\ pc = "jsAwait"
  /\ ~ShouldValidate(validator, i)
  /\ \E out \in Outputs : TRUE
  /\ hostHeap' = hostHeap + 1
  /\ metrics' = jsMeasured(metrics)
  /\ inFlight' = inFlight \ {"js"}
  /\ events' = events \o << <<"jsEnd", i>>, <<"jsSnapshot", i>> >>
  /\ EndIteration
  /\ UNCHANGED << params, pure, host, originalResults, nodeEnv, envLog, elapsed, dirExists, diskFull, next, cfg, error, stores, returns,
                  calls, callArgs, validatorLog, hookLog >>

\* ... the measurement is pushed and validator(wasmResult, jsResult) returns a
\* validation result
JsResolveValidate ==
  /\ pc = "jsAwait"
  /\ ShouldValidate(validator, i)
  /\ validator = "shape"
  /\ \E out \in Outputs :
       /\ validatorLog' = Append(validatorLog, [trial |-> i, wasm |-> wasmResult[1], js |-> out])
       /\ metrics' = storeValidation(jsMeasured(metrics), shapeValidator(wasmResult[1], out))
  /\ hostHeap' = hostHeap + 1
  /\ inFlight' = inFlight \ {"js"}
  /\ events' = events \o << <<"jsEnd", i>>, <<"jsSnapshot", i>>, <<"validate", i>> >>
  /\ EndIteration
  /\ UNCHANGED << params, pure, host, originalResults, nodeEnv, envLog, elapsed, dirExists, diskFull, next, cfg, error, stores, returns,
                  calls, callArgs, hookLog >>

\* where runTest goes when the validator returns undefined (reading .success of it
\* is a TypeError) or throws: the call is in no try/catch
OnValidatorFailure == "rejected"

\* ... the measurement is pushed and the validator returns undefined or throws
JsResolveValidateFails ==
  /\ pc = "jsAwait"
  /\ ShouldValidate(validator, i)
  /\ validator \in {"undef", "throws"}
  /\ \E out \in Outputs :
       validatorLog' = Append(validatorLog, [trial |-> i, wasm |-> wasmResult[1], js |-> out])
  /\ Unwind
  /\ hostHeap' = hostHeap + 1
  /\ metrics' = jsMeasured(metrics)
  /\ inFlight' = inFlight \ {"js"}
  /\ events' = events \o << <<"jsEnd", i>>, <<"jsSnapshot", i>>, <<"validate", i>> >>
  /\ error' = IF validator = "undef" THEN "TypeError: validationResult is undefined"
                                     ELSE "validator threw"
  /\ pc' = OnValidatorFailure
  /\ UNCHANGED << params, pure, host, originalResults, nodeEnv, envLog, elapsed, dirExists, diskFull, next, cfg, i, stores, returns,
                  calls, callArgs, hookLog >>

\* the loop is over: the statistics and the speedup
Finalize ==
  /\ pc = "loop"
  /\ ~LoopContinues(i, iterations)
  /\ metrics' = withStats(metrics)
  /\ pc' = "export"
  /\ UNCHANGED << params, pure, host, originalResults, nodeEnv, envLog, elapsed, dirExists, diskFull, hostHeap, next, cfg, i, locals, error, stores, returns,
                  inFlight, calls, callArgs, events, validatorLog, hookLog >>

\* ------------------------------------------------------- the export hooks
\* one exportResults invocation: by which runTest, for which configuration, with
\* which metrics object, the results array it wrote (<<>>: it wrote nothing), and
\* whether it threw
hookEntry(from, m, wrote, threw) ==
  [from |-> from, size |-> m.size, metrics |-> m, wrote |-> wrote, threw |-> threw]

\* benchmarkData.results of TestRunnerWithDatabase.exportResults
exportData(all, m) == IF Len(all) > 0 THEN all ELSE <<m>>

\* TestRunner.prototype.exportResults: an empty method
ExportDefault ==
  /\ pc = "export"
  /\ runner.hook = "default"
  /\ hookLog' = Append(hookLog, hookEntry("TestRunner.runTest", metrics, <<>>, FALSE))
  /\ pc' = "returned"
  /\ UNCHANGED << params, pure, host, originalResults, nodeEnv, envLog, elapsed, dirExists, diskFull, hostHeap, next, cfg, i, metrics, locals, error, stores, returns,
                  inFlight, calls, callArgs, events, validatorLog >>

\* fs.writeFileSync: whether the disk is full after the call was made
DiskAfter(full) == IF full THEN {TRUE} ELSE {FALSE, TRUE}

\* the override of node-tests.js: push, then rewrite the results file;
\* fs.writeFileSync may throw, and runTest does not catch
ExportNode ==
  /\ pc = "export"
  /\ runner.hook = "nodeTests"
  /\ nodeResults' = Append(nodeResults, metrics)
  /\ \E full \in DiskAfter(diskFull) :
       /\ diskFull' = full
       /\ IF ~full
          THEN /\ writes' = Append(writes, nodeResults')
               /\ envLog' = Append(envLog, nodeEnv[1])
               /\ hookLog' = Append(hookLog, hookEntry("TestRunner.runTest", metrics, <<nodeResults'>>, FALSE))
               /\ pc' = "returned"
               /\ UNCHANGED error
          ELSE /\ hookLog' = Append(hookLog, hookEntry("TestRunner.runTest", metrics, <<>>, TRUE))
               /\ error' = "exportResults failed"
               /\ pc' = "rejected"
               /\ UNCHANGED << writes, envLog >>
  /\ UNCHANGED << params, pure, host, originalResults, nodeEnv, elapsed, dirExists, hostHeap, next, cfg, i, metrics, locals, allResults,
                  dbSaved, returns, inFlight, calls, callArgs, events, validatorLog >>

\* mkdirSync, called when the results directory does not exist: whether it made it
\* (it throws otherwise, and exportResults does not catch that)
MkdirOutcomes(exists) == IF exists THEN {TRUE} ELSE {TRUE, FALSE}

\* TestRunnerWithDatabase.exportResults called by TestRunner.runTest (runner.js:112),
\* before the subclass has pushed the metrics.  A failing writeFileSync is caught
\* and logged
ExportDb ==
  /\ pc = "export"
  /\ runner.hook = "db"
  /\ IF ~runner.saveToJson
     THEN /\ hookLog' = Append(hookLog, hookEntry("TestRunner.runTest", metrics, <<>>, FALSE))
          /\ pc' = "returned"
          /\ UNCHANGED << writes, error, dirExists, diskFull, envLog >>
     ELSE \E dir \in MkdirOutcomes(dirExists) :
            /\ dirExists' = dir
            /\ IF ~dir
               THEN /\ hookLog' = Append(hookLog, hookEntry("TestRunner.runTest", metrics, <<>>, TRUE))
                    /\ error' = "exportResults failed"
                    /\ pc' = "rejected"
                    /\ UNCHANGED << writes, diskFull, envLog >>
               ELSE \E full \in DiskAfter(diskFull) :
                      /\ diskFull' = full
                      /\ hookLog' = Append(hookLog, hookEntry("TestRunner.runTest", metrics,
                            IF full THEN <<>> ELSE <<exportData(allResults, metrics)>>, FALSE))
                      /\ writes' = IF full THEN writes
                                   ELSE Append(writes, exportData(allResults, metrics))
                      /\ envLog' = IF full THEN envLog
                                   ELSE Append(envLog, getEnvironmentInfo(freeMemory))
                      /\ pc' = "returned"
                      /\ UNCHANGED error
  /\ UNCHANGED << params, pure, host, originalResults, nodeEnv, elapsed, hostHeap, next, cfg, i, metrics, locals, allResults, nodeResults,
                  dbSaved, returns, inFlight, calls, callArgs, events, validatorLog >>

\* ---------------------------------------------- back in the caller of runTest
returned(kind, c, value, err) == [kind |-> kind, size |-> c.size, value |-> value, error |-> err]

\* TestRunner.runTest returns metrics to the driver of node-tests.js
ReturnMetrics ==
  /\ pc = "returned"
  /\ runner.class = "TestRunner"
  /\ returns' = Append(returns, returned("metrics", cfg, <<metrics>>, ""))
  /\ next' = next + 1
  /\ pc' = "driver"
  /\ UNCHANGED << params, pure, host, originalResults, nodeEnv, envLog, elapsed, dirExists, diskFull, hostHeap, cfg, i, metrics, locals, error, stores,
                  inFlight, calls, callArgs, events, validatorLog, hookLog >>

\* TestRunner.runTest rejects; the loop of runMatrixMultiplicationTest has no
\* try/catch, runAllTests rethrows and the process exits
RejectToDriver ==
  /\ pc = "rejected"
  /\ runner.class = "TestRunner"
  /\ returns' = Append(returns, returned("rejected", cfg, <<>>, error))
  /\ pc' = "aborted"
  /\ UNCHANGED << params, pure, host, originalResults, nodeEnv, envLog, elapsed, dirExists, diskFull, hostHeap, next, cfg, i, metrics, locals, error, stores,
                  inFlight, calls, callArgs, events, validatorLog, hookLog >>

\* if (!metrics || typeof metrics.speedup === 'undefined' || isNaN(metrics.speedup))
invalidMetrics(m) == isNaN(m.speedup)

\* TestRunnerWithDatabase.runTest after super.runTest returned invalid metrics
DbReturnNull ==
  /\ pc = "returned"
  /\ runner.class = "TestRunnerWithDatabase"
  /\ invalidMetrics(metrics)
  /\ returns' = Append(returns, returned("null", cfg, <<>>, ""))
  /\ next' = next + 1
  /\ pc' = "driver"
  /\ UNCHANGED << params, pure, host, originalResults, nodeEnv, envLog, elapsed, dirExists, diskFull, hostHeap, cfg, i, metrics, locals, error, stores,
                  inFlight, calls, callArgs, events, validatorLog, hookLog >>

\* this.allResults.push(metrics) put at the front of the array
pushResultFront(all, m) == <<m>> \o all

\* this.allResults.push(metrics)
pushResult(all, m) == Append(all, m)

\* TestRunnerWithDatabase.runTest after super.runTest returned valid metrics:
\* push, exportResults again when saveToJson, return metrics; a throw of
\* exportResults lands in the catch, which returns the errorResult
DbAccept ==
  /\ pc = "returned"
  /\ runner.class = "TestRunnerWithDatabase"
  /\ ~invalidMetrics(metrics)
  /\ allResults' = pushResult(allResults, metrics)
  /\ IF ~runner.saveToJson
     THEN /\ returns' = Append(returns, returned("metrics", cfg, <<metrics>>, ""))
          /\ UNCHANGED << writes, hookLog, error, dirExists, diskFull, envLog >>
     ELSE \E dir \in MkdirOutcomes(dirExists) :
            /\ dirExists' = dir
            /\ IF ~dir
               THEN /\ hookLog' = Append(hookLog,
                          hookEntry("TestRunnerWithDatabase.runTest", metrics, <<>>, TRUE))
                    /\ error' = "exportResults failed"
                    /\ returns' = Append(returns,
                          returned("errorResult", cfg,
                                   <<errorResult(cfg, "exportResults failed")>>,
                                   "exportResults failed"))
                    /\ UNCHANGED << writes, diskFull, envLog >>
               ELSE \E full \in DiskAfter(diskFull) :
                      /\ diskFull' = full
                      /\ hookLog' = Append(hookLog,
                            hookEntry("TestRunnerWithDatabase.runTest", metrics,
                               IF full THEN <<>> ELSE <<exportData(allResults', metrics)>>, FALSE))
                      /\ writes' = IF full THEN writes
                                   ELSE Append(writes, exportData(allResults', metrics))
                      /\ envLog' = IF full THEN envLog
                                   ELSE Append(envLog, getEnvironmentInfo(freeMemory))
                      /\ returns' = Append(returns, returned("metrics", cfg, <<metrics>>, ""))
                      /\ UNCHANGED error
  /\ next' = next + 1
  /\ pc' = "driver"
  /\ UNCHANGED << params, pure, host, originalResults, nodeEnv, elapsed, hostHeap, cfg, i, metrics, locals, nodeResults, dbSaved,
                  inFlight, calls, callArgs, events, validatorLog >>

\* the catch of TestRunnerWithDatabase.runTest: super.runTest rejected
DbCatch ==
  /\ pc = "rejected"
  /\ runner.class = "TestRunnerWithDatabase"
  /\ returns' = Append(returns, returned("errorResult", cfg, <<errorResult(cfg, error)>>, error))
  /\ next' = next + 1
  /\ pc' = "driver"
  /\ UNCHANGED << params, pure, host, originalResults, nodeEnv, envLog, elapsed, dirExists, diskFull, hostHeap, cfg, i, metrics, locals, error, stores,
                  inFlight, calls, callArgs, events, validatorLog, hookLog >>

\* this.allResults.filter(r => r && r.speedup > 0)
validResults(all) == SelectSeq(all, LAMBDA r : isPositive(r.speedup))

\* if (this.options.saveToDatabase && this.allResults.length > 0) and
\* if (validResults.length > 0) of runCompleteBenchmark
ShouldSaveToDatabase ==
  /\ runner.class = "TestRunnerWithDatabase"
  /\ runner.saveToDatabase
  /\ Len(allResults) > 0
  /\ Len(validResults(allResults)) > 0

\* a finally block that leaves the valid results in allResults
restoreResultsKeepsValid(original, current) == current

\* finally { this.allResults = originalResults; }
restoreResults(original, current) == original

\* every size was submitted and there are valid results to save:
\* runCompleteBenchmark keeps allResults in originalResults, replaces it with the
\* valid results and awaits saveBenchmarkToDatabase
DbSaveBegin ==
  /\ pc = "driver"
  /\ next > Len(Sizes(runner))
  /\ ShouldSaveToDatabase
  /\ originalResults' = <<allResults>>
  /\ allResults' = validResults(allResults)
  /\ pc' = "dbSave"
  /\ UNCHANGED << params, pure, host, nodeEnv, envLog, elapsed, dirExists, diskFull, hostHeap, next, cfg, i,
                  metrics, locals, error, nodeResults, writes, dbSaved, returns,
                  inFlight, calls, callArgs, events, validatorLog, hookLog >>

\* saveBenchmarkToDatabase settles: the data it saved are allResults with the
\* environment read for them; a failure is caught and logged.  The finally
\* restores allResults, and runCompleteBenchmark returns
DbSaveEnd ==
  /\ pc = "dbSave"
  /\ \E saved \in BOOLEAN :
       /\ dbSaved' = IF saved THEN Append(dbSaved, allResults) ELSE dbSaved
       /\ envLog' = IF saved THEN Append(envLog, getEnvironmentInfo(freeMemory)) ELSE envLog
  /\ allResults' = restoreResults(originalResults[1], allResults)
  /\ originalResults' = <<>>
  /\ pc' = "done"
  /\ UNCHANGED << params, pure, host, nodeEnv, elapsed, dirExists, diskFull, hostHeap, next, cfg, i,
                  metrics, locals, error, nodeResults, writes, returns,
                  inFlight, calls, callArgs, events, validatorLog, hookLog >>

\* every size was submitted and nothing is to be saved to the database: the
\* driver returns
Finish ==
  /\ pc = "driver"
  /\ next > Len(Sizes(runner))
  /\ ~ShouldSaveToDatabase
  /\ pc' = "done"
  /\ UNCHANGED << params, pure, host, originalResults, nodeEnv, envLog, elapsed, dirExists, diskFull, hostHeap,
                  next, cfg, i, metrics, locals, error, stores, returns,
                  inFlight, calls, callArgs, events, validatorLog, hookLog >>

Next ==
  \/ Start \/ Submit
  \/ WasmInvoke \/ WasmResolve \/ WasmReject
  \/ JsInvoke \/ JsReject
  \/ JsResolve \/ JsResolveValidate \/ JsResolveValidateFails
  \/ Finalize
  \/ ExportDefault \/ ExportNode \/ ExportDb
  \/ ReturnMetrics \/ RejectToDriver
  \/ DbReturnNull \/ DbAccept \/ DbCatch
  \/ DbSaveBegin \/ DbSaveEnd
  \/ Finish

Spec == Init /\ [][Next]_vars

\* ------------------------------------------------------ one run after another
\* The drivers with an export of their own (node-tests.js, and
\* TestRunnerWithDatabase.runCompleteBenchmark, which may be called again on the
\* same runner), one trial per size and no validator, on a host whose free
\* memory changes while the benchmark runs.
InitRuns ==
  /\ InitWith({r \in RunnerKinds : r.hook # "default"} \cup AsyncRunnerKinds)
  /\ iterations = 1
  /\ validator = "none"
  /\ call = [fn |-> "none"]
  /\ result = <<>>

\* runTest calls this.exportResults(metrics) (runner.js:111-113) and goes on to
\* return metrics: the promise the hook returned is not awaited
ExportAsync ==
  /\ pc = "export"
  /\ runner.hook = "async"
  /\ hookLog' = Append(hookLog, hookEntry("TestRunner.runTest", metrics, <<>>, FALSE))
  /\ pendingExports' = pendingExports \cup {cfg.size}
  /\ pc' = "returned"
  /\ UNCHANGED << params, pure, db, freeMemory, round, originalResults, nodeEnv, envLog, elapsed, dirExists,
                  diskFull, hostHeap, next, cfg, i, metrics, locals, error, stores, returns,
                  inFlight, calls, callArgs, events, validatorLog >>

\* the write of an asynchronous exportResults completes: the file holds the
\* metrics the hook was called with
HookSettles ==
  /\ \E s \in pendingExports :
       /\ pendingExports' = pendingExports \ {s}
       /\ \E k \in DOMAIN hookLog :
            /\ hookLog[k].size = s
            /\ writes' = Append(writes, <<hookLog[k].metrics>>)
  /\ UNCHANGED << params, pure, db, freeMemory, round, originalResults, nodeEnv, envLog, elapsed, dirExists,
                  diskFull, hostHeap, pc, next, cfg, i, metrics, locals, error,
                  allResults, nodeResults, dbSaved, returns,
                  inFlight, calls, callArgs, events, validatorLog, hookLog >>

\* runCompleteBenchmark has returned and is called again on the same runner; what
\* was observed of the call that ended is dropped
RunAgain ==
  /\ pc = "done"
  /\ runner.class = "TestRunnerWithDatabase"
  /\ round < MaxRounds
  /\ round' = round + 1
  /\ next' = 1
  /\ pc' = "start"
  /\ returns' = <<>> /\ hookLog' = <<>> /\ writes' = <<>> /\ dbSaved' = <<>>
  /\ UNCHANGED << params, pure, db, freeMemory, pendingExports, originalResults, nodeEnv, envLog, elapsed, dirExists,
                  diskFull, hostHeap, cfg, i, metrics, locals, error, allResults, nodeResults,
                  inFlight, calls, callArgs, events, validatorLog >>

\* os.freemem() between two configurations: the host's free memory is another
HostMemoryChanges ==
  /\ pc = "driver"
  /\ \E free \in 0..MaxFreeMemory :
       /\ free # freeMemory
       /\ freeMemory' = free
  /\ UNCHANGED << params, pure, db, round, pendingExports, originalResults, nodeEnv, envLog, elapsed, dirExists, diskFull,
                  hostHeap, pc, next, cfg, i, metrics, locals, error, stores, returns,
                  inFlight, calls, callArgs, events, validatorLog, hookLog >>

NextRuns ==
  \/ Start \/ Submit
  \/ WasmInvoke \/ WasmResolve \/ WasmReject
  \/ JsInvoke \/ JsReject
  \/ JsResolve
  \/ Finalize
  \/ ExportNode \/ ExportDb
  \/ ReturnMetrics \/ RejectToDriver
  \/ DbReturnNull \/ DbAccept \/ DbCatch
  \/ DbSaveBegin \/ DbSaveEnd
  \/ Finish
  \/ RunAgain \/ HostMemoryChanges
  \/ ExportAsync \/ HookSettles

SpecRuns == InitRuns /\ [][NextRuns]_vars

\* ------------------------------------------------ the functions on their own
\* The pure functions of the runner, called with arguments of every shape: the
\* state holds the last call and what it returned; the run does not move.
runVars == << runner, iterations, validator, elapsed, dirExists, diskFull, hostHeap, pc, next, cfg, i,
              metrics, wasmResult, jsResult, wasmMemoryBefore, jsMemoryBefore, error,
              allResults, nodeResults, writes, dbSaved, returns,
              inFlight, calls, callArgs, events, validatorLog, hookLog,
              freeMemory, nodeEnv, envLog, round, originalResults, pendingExports >>

SeqsUpTo(S, n) == UNION { [1..k -> S] : k \in 0..n }
SampleValues == 0..MaxSample

\* a measurement of measureMemory: process.memoryUsage(), or the sentinel
MemorySamples ==
  { [unavailable |-> TRUE] } \cup
  [ unavailable : {FALSE}, heapUsed : 0..MaxBytes, heapTotal : 0..MaxBytes,
    external : 0..MaxBytes, rss : 0..MaxBytes ]

\* outputs of every shape: absent, single numbers, arrays of four numbers, a
\* short array, matrices as large as the sample of the runBenchmark validator,
\* a matrix with too few rows, an array of numbers where a matrix is expected
OutputValues ==
  { Undefined, Null, Num(0), Num(1), NaNValue,
    Arr(<<>>), Arr(<<Num(1), Num(1)>>),
    Arr(<<Num(1), Num(1), Num(1), Num(1)>>), Arr(<<Num(2), Num(2), Num(2), Num(2)>>),
    Arr(<<Num(1), NaNValue, Num(1), Num(1)>>),
    Matrix(SampleCap, 0), Matrix(SampleCap, 1), Matrix(2, 0),
    Arr([k \in 1..SampleCap |-> Num(0)]) }

\* size labels a caller may pass to runBenchmark: the three of the size map, and
\* others
SizeLabels == {"small", "medium", "large", "huge", "", "Small", "constructor", "toString"}

\* the calls, by function
\* what happens inside runSingleTest for one algorithm of TEST_CONFIGS: the
\* benchmark completes, the WebAssembly module fails to initialise, or
\* runCompleteBenchmark or cleanup throws
AlgorithmOutcomes == {"completed", "initFails", "benchmarkFails"}

Calls ==
  [fn : {"calculateStats"}, times : SeqsUpTo(SampleValues, MaxSamples)]
  \cup UNION { [fn : {"statistics"}, wasmTimes : [1..n -> SampleValues],
                jsTimes : [1..n -> SampleValues]] : n \in 0..MaxSeries }
  \cup [fn : {"calculateMemoryUsage"}, before : MemorySamples, after : MemorySamples]
  \cup [fn : {"validator"}, name : ValidatorNames,
        wasmResult : OutputValues, jsResult : OutputValues]
  \cup [fn : {"runBenchmark"}, size : SizeLabels, iterations : 0..MaxIter]
  \cup [fn : {"runAllTests"}, heavy : BOOLEAN,
        outcomes : SeqsUpTo(AlgorithmOutcomes, MaxAlgorithms)]

InitPure ==
  /\ InitRun
  /\ runner = [class |-> "TestRunner", hook |-> "default", saveToJson |-> FALSE, saveToDatabase |-> FALSE]
  /\ iterations = 1
  /\ validator = "none"
  /\ call \in Calls
  /\ result = <<>>

\* TestRunner.calculateStats(times)
CallCalculateStats ==
  /\ call.fn = "calculateStats"
  /\ result = <<>>
  /\ result' = <<calculateStats(call.times)>>
  /\ UNCHANGED << call, runVars, db >>

\* memory samples for a series of trials: in each the heap grew by as many bytes
\* as the trial took milliseconds
heapSeries(times) ==
  [k \in DOMAIN times |->
     calculateMemoryUsage(measureMemory(memApi, 0), measureMemory(memApi, times[k]))]

\* the statistics step of runTest (runner.js:73-78) on a metrics object holding
\* the two timing series and the two memory series
CallStatistics ==
  /\ call.fn = "statistics"
  /\ result = <<>>
  /\ result' = <<withStats([newMetrics(cfg) EXCEPT !.wasmTimes = call.wasmTimes,
                                                   !.jsTimes = call.jsTimes,
                                                   !.wasmMemory = heapSeries(call.wasmTimes),
                                                   !.jsMemory = heapSeries(call.jsTimes)])>>
  /\ UNCHANGED << call, runVars, db >>

\* TestRunner.calculateMemoryUsage(before, after)
CallCalculateMemoryUsage ==
  /\ call.fn = "calculateMemoryUsage"
  /\ result = <<>>
  /\ result' = <<calculateMemoryUsage(call.before, call.after)>>
  /\ UNCHANGED << call, runVars, db >>

\* a validator called as runTest calls it (runner.js:65-69): the returned value,
\* and the validationResults runTest stores from it
CallValidator ==
  /\ call.fn = "validator"
  /\ result = <<>>
  /\ LET vr == validate(call.name, call.wasmResult, call.jsResult)
     IN  result' = << [ returned |-> vr,
                        stored |-> IF vr.threw THEN <<>>
                                   ELSE <<storeValidation(newMetrics(cfg), vr).validationResults>> ] >>
  /\ UNCHANGED << call, runVars, db >>

\* TestRunner.runBenchmark(algorithm, size, iterations)
CallRunBenchmark ==
  /\ call.fn = "runBenchmark"
  /\ result = <<>>
  /\ result' = <<runBenchmark(cfg.algorithm, call.size, call.iterations)>>
  /\ UNCHANGED << call, runVars, db >>

\* runSingleTest(algorithmKey): the whole body stands in a try whose catch logs
\* the error; nothing is rethrown, the promise resolves
runSingleTest(algorithm) == [threw |-> FALSE, logged |-> algorithm # "completed"]

\* runSingleTestHeavy(algorithmKey): the same with ten iterations
runSingleTestHeavy(algorithm) == [threw |-> FALSE, logged |-> algorithm # "completed"]

\* the loop of runAllTests and runAllTestsHeavy over Object.keys(TEST_CONFIGS),
\* from position k on: totalTests++, then successfulTests++ unless the await threw
RECURSIVE runAllTestsFrom(_, _, _, _)
runAllTestsFrom(outcomes, heavy, k, counts) ==
  IF k > Len(outcomes) THEN counts
  ELSE LET single == IF heavy THEN runSingleTestHeavy(outcomes[k])
                     ELSE runSingleTest(outcomes[k])
       IN  runAllTestsFrom(outcomes, heavy, k + 1,
             [totalTests |-> counts.totalTests + 1,
              successfulTests |-> IF single.threw THEN counts.successfulTests
                                  ELSE counts.successfulTests + 1])

\* runAllTests() and runAllTestsHeavy(): the two counters of the summary line
runAllTests(outcomes, heavy) ==
  runAllTestsFrom(outcomes, heavy, 1, [totalTests |-> 0, successfulTests |-> 0])

CallRunAllTests ==
  /\ call.fn = "runAllTests"
  /\ result = <<>>
  /\ result' = <<runAllTests(call.outcomes, call.heavy)>>
  /\ UNCHANGED << call, runVars, db >>

NextPure ==
  \/ CallCalculateStats \/ CallStatistics \/ CallCalculateMemoryUsage \/ CallValidator
  \/ CallRunBenchmark \/ CallRunAllTests

SpecPure == InitPure /\ [][NextPure]_vars

\* ------------------------------------------------------ saves to the database
\* DatabaseManager.saveBenchmarkResults called MaxSaves times, one call after the
\* other, each with a benchmarkData of its own; pool.connect() and every
\* client.query() either succeeds or fails.

\* a result with n memory samples per implementation: what matters to the
\* INSERTs is how many samples there are
DbResult(n) ==
  [size |-> "small", wasmMemory |-> heapSeries([k \in 1..n |-> 0]),
   jsMemory |-> heapSeries([k \in 1..n |-> 0])]

\* the benchmarkData of a save: the results of one runCompleteBenchmark, which
\* ran every configuration with the same number of iterations and so took the
\* same number of memory samples for each, on the host, which has MaxCpus cpus
BenchmarkDatas ==
  { [cpus |-> c, results |-> [k \in 1..len |-> DbResult(n)]] :
      c \in {MaxCpus}, len \in 0..MaxResults, n \in 0..MaxMemorySamples }

InitDb ==
  /\ InitWith({r \in RunnerKinds : r.saveToJson /\ r.saveToDatabase})
  /\ dirExists
  /\ iterations = 1
  /\ validator = "none"
  /\ call = [fn |-> "none"]
  /\ result = <<>>

\* what is recorded of a client.query(): the statement and whether it succeeded
query(sql, st, ok) == [sql |-> sql, table |-> st.table, of |-> st.of, ok |-> ok]
NoStatement == [table |-> "", of |-> 0, type |-> "", index |-> 0]

\* saveBenchmarkResults(benchmarkData) is called: await this.pool.connect().  A
\* failing connect rejects the call before any client exists
DbConnect ==
  /\ db.pc = "idle"
  /\ Len(db.log) < MaxSaves
  /\ \E data \in BenchmarkDatas, ok \in BOOLEAN :
       db' = IF ok
             THEN [db EXCEPT !.pc = "begin", !.data = <<data>>, !.queue = statements(data),
                             !.issued = <<>>, !.tx = <<>>, !.error = "",
                             !.environmentId = 0, !.testRunId = 0,
                             !.acquired = @ + 1]
             ELSE [db EXCEPT !.data = <<data>>, !.issued = <<>>, !.error = "connect failed",
                             !.log = Append(@, [outcome |-> "rejected", error |-> "connect failed",
                                                client |-> FALSE])]
  /\ UNCHANGED << pure, runVars >>

\* await client.query('BEGIN')
DbBegin ==
  /\ db.pc = "begin"
  /\ \E ok \in BOOLEAN :
       db' = [db EXCEPT !.issued = Append(@, query("BEGIN", NoStatement, ok)),
                        !.pc = IF ok THEN "insert" ELSE "rollback",
                        !.error = IF ok THEN "" ELSE "BEGIN failed"]
  /\ UNCHANGED << pure, runVars >>

\* the row an INSERT stores: environment_info and test_runs rows get the next id
\* of the server (RETURNING id); cpu_info and test_runs rows refer to
\* environmentId, the rows of the other tables to testRunId
rowOf(st, d) ==
  [ table |-> st.table, of |-> st.of, type |-> st.type, index |-> st.index,
    id  |-> IF st.table \in {"environment_info", "test_runs"} THEN d.nextId ELSE 0,
    ref |-> IF st.table = "environment_info" THEN 0
            ELSE IF st.table \in {"cpu_info", "test_runs"} THEN d.environmentId
            ELSE d.testRunId,
    save |-> Len(d.log) + 1 ]

\* the next INSERT of the save
DbInsert ==
  /\ db.pc = "insert"
  /\ db.queue # <<>>
  /\ LET st == Head(db.queue)
         row == rowOf(st, db)
     IN  \E ok \in BOOLEAN :
           db' = IF ok
                 THEN [db EXCEPT !.issued = Append(@, query("INSERT", st, TRUE)),
                                 !.queue = Tail(@),
                                 !.tx = Append(@, row),
                                 !.nextId = IF row.id # 0 THEN @ + 1 ELSE @,
                                 !.environmentId = IF st.table = "environment_info" THEN row.id ELSE @,
                                 !.testRunId = IF st.table = "test_runs" THEN row.id ELSE @]
                 ELSE [db EXCEPT !.issued = Append(@, query("INSERT", st, FALSE)),
                                 !.pc = "rollback",
                                 !.error = "INSERT failed"]
  /\ UNCHANGED << pure, runVars >>

\* every INSERT was made: await client.query('COMMIT').  The server stores the
\* rows of the transaction when the COMMIT succeeds
DbCommit ==
  /\ db.pc = "insert"
  /\ db.queue = <<>>
  /\ \E ok \in BOOLEAN :
       db' = IF ok
             THEN [db EXCEPT !.issued = Append(@, query("COMMIT", NoStatement, TRUE)),
                             !.rows = @ \o db.tx,
                             !.tx = <<>>,
                             !.pc = "release"]
             ELSE [db EXCEPT !.issued = Append(@, query("COMMIT", NoStatement, FALSE)),
                             !.pc = "rollback",
                             !.error = "COMMIT failed"]
  /\ UNCHANGED << pure, runVars >>

\* where the flow goes when the ROLLBACK of the catch block fails, skipping the
\* finally block
AfterRollbackFailureNoFinally == "idle"

\* where the flow goes when the ROLLBACK of the catch block fails: the error
\* leaves the catch block, and the finally block runs
AfterRollbackFailure == "release"

\* the catch block: await client.query('ROLLBACK'); throw error.  The server drops
\* the rows of the transaction; a ROLLBACK fails when the connection is lost, and
\* the server drops them as well.  The error of a failing ROLLBACK is the one
\* that leaves the block
DbRollback ==
  /\ db.pc = "rollback"
  /\ \E ok \in BOOLEAN :
       db' = [db EXCEPT !.issued = Append(@, query("ROLLBACK", NoStatement, ok)),
                        !.tx = <<>>,
                        !.error = IF ok THEN @ ELSE "ROLLBACK failed",
                        !.pc = IF ok THEN "release" ELSE AfterRollbackFailure]
  /\ UNCHANGED << pure, runVars >>

\* the finally block: client.release(); the call resolves, or rejects with the
\* error
DbRelease ==
  /\ db.pc = "release"
  /\ db' = [db EXCEPT !.released = @ + 1,
                      !.pc = "idle",
                      !.log = Append(@, [outcome |-> IF db.error = "" THEN "resolved" ELSE "rejected",
                                         error |-> db.error, client |-> TRUE])]
  /\ UNCHANGED << pure, runVars >>

NextDb ==
  \/ DbConnect \/ DbBegin \/ DbInsert \/ DbCommit \/ DbRollback \/ DbRelease

SpecDb == InitDb /\ [][NextDb]_vars

\* ------------------------------------------------------------------ claims
IsPrefix(s, t) == Len(s) <= Len(t) /\ \A k \in DOMAIN s : s[k] = t[k]
Last(s) == s[Len(s)]
IndexOf(e, s) == IF \E k \in DOMAIN s : s[k] = e
                 THEN CHOOSE k \in DOMAIN s : s[k] = e /\ \A j \in 1..(k - 1) : s[j] # e
                 ELSE 0
SeriesComplete(m, n) ==
  /\ Len(m.wasmTimes) = n /\ Len(m.jsTimes) = n
  /\ Len(m.wasmMemory) = n /\ Len(m.jsMemory) = n

TrialEvents(k, v) ==
  << <<"wasmStart", k>>, <<"wasmEnd", k>>, <<"wasmSnapshot", k>>,
     <<"jsStart", k>>, <<"jsEnd", k>>, <<"jsSnapshot", k>> >>
  \o (IF v # "none" /\ k = 0 THEN << <<"validate", k>> >> ELSE <<>>)

RECURSIVE ExpectedEvents(_, _, _)
ExpectedEvents(k, n, v) ==
  IF k >= n THEN <<>> ELSE TrialEvents(k, v) \o ExpectedEvents(k + 1, n, v)

Rejections == {"wasmReject", "jsReject"}

\* C2: the invocations of a runTest are strictly sequential: at most one
\* runAlgorithm is in flight; what runTest did so far is a prefix of: per trial,
\* the WebAssembly call, its end and its after-snapshot, then the JavaScript call,
\* its end and snapshot, then (trial 0, with a validator) the validation, trial
\* after trial; a rejection ends it.
C2_Sequential ==
  /\ Cardinality(inFlight) <= 1
  /\ ("wasm" \in inFlight) = (events # <<>> /\ Last(events)[1] = "wasmStart")
  /\ ("js" \in inFlight) = (events # <<>> /\ Last(events)[1] = "jsStart")
  /\ \A k \in 1..(Len(events) - 1) : events[k][1] \notin Rejections
  /\ IsPrefix(SelectSeq(events, LAMBDA e : e[1] \notin Rejections),
              ExpectedEvents(0, iterations, validator))

C2_Witness ==
  /\ inFlight = {"js"} /\ i = 1 /\ validator = "shape"
  /\ IndexOf(<<"validate", 0>>, events) = 7
  /\ IndexOf(<<"wasmStart", 1>>, events) = 8

\* C3: with a validator, runTest calls it at most once, in trial 0, with the two
\* outputs of that trial and after both of its invocations completed; once
\* trial 0 is over it was called exactly once; the outputs of a trial are gone
\* when the next begins and the result has no field holding them.
C3_ValidatesOnceOnTrialZero ==
  /\ Len(validatorLog) <= 1
  /\ validator = "none" => validatorLog = <<>>
  /\ \A k \in DOMAIN validatorLog :
        /\ validatorLog[k].trial = 0
        /\ 0 < IndexOf(<<"wasmEnd", 0>>, events)
        /\ IndexOf(<<"wasmEnd", 0>>, events) < IndexOf(<<"jsEnd", 0>>, events)
        /\ IndexOf(<<"jsEnd", 0>>, events) < IndexOf(<<"validate", 0>>, events)
  /\ (validator # "none" /\ i >= 1) => Len(validatorLog) = 1
  /\ (pc = "loop" /\ i >= 1) => (wasmResult = <<>> /\ jsResult = <<>>)
  /\ (pc \in {"export", "returned"}) =>
        DOMAIN metrics \cap {"wasmResult", "jsResult", "outputs"} = {}

C3_Witness ==
  /\ pc = "returned" /\ iterations = 2 /\ validator = "shape"
  /\ Len(validatorLog) = 1 /\ validatorLog[1].trial = 0

ImplementationFailures == {"wasm.runAlgorithm failed", "js.runAlgorithm failed"}

\* while runTest, or its caller, holds the rejection of an implementation: the flow
\* is out of the loop, nothing is in flight, the hook was not called for the
\* configuration and no collection or file holds a result of it; the caller got
\* the failure (TestRunner.runTest rejected with it)
C4_State ==
  error \in ImplementationFailures =>
    /\ pc \in {"rejected", "driver", "dbSave", "aborted", "done"}
    /\ inFlight = {}
    /\ \A k \in DOMAIN hookLog : hookLog[k].size # cfg.size
    /\ \A k \in DOMAIN allResults : allResults[k].size # cfg.size
    /\ \A k \in DOMAIN nodeResults : nodeResults[k].size # cfg.size
    /\ \A w \in DOMAIN writes : \A k \in DOMAIN writes[w] : writes[w][k].size # cfg.size
    /\ pc # "rejected" =>
         /\ returns # <<>>
         /\ Last(returns).size = cfg.size
         /\ Last(returns).error = error
         /\ Last(returns).kind =
              (IF runner.class = "TestRunner" THEN "rejected" ELSE "errorResult")

\* C4: when wasm.runAlgorithm or js.runAlgorithm rejects in a trial, runTest rejects
\* with that failure, no implementation is invoked again for the configuration,
\* the export hook is not called and no result of the configuration is appended
\* to a result collection.
C4_FailFast ==
  /\ []C4_State
  /\ [][(error \in ImplementationFailures /\ error' = error) => calls' = calls]_vars

C4_Witness ==
  /\ pc = "aborted" /\ error = "wasm.runAlgorithm failed"
  /\ calls = [wasm |-> 2, js |-> 1]
  /\ Len(returns) = 2 /\ Len(nodeResults) = 1

\* C5: a runTest with iterations = 0 is rejected before an implementation is
\* invoked: it never reaches the export hook or its return with a result computed
\* from zero samples.
C5_ZeroIterationsRejected ==
  iterations = 0 =>
    /\ pc \notin {"export", "returned"}
    /\ hookLog = <<>>
    /\ \A k \in DOMAIN returns : returns[k].kind \notin {"metrics", "null"}

ValidatorFailures == {"TypeError: validationResult is undefined", "validator threw"}

\* C6: a validator that returns undefined or throws on trial 0 does not fail
\* runTest: the run goes on and the result it returns has validationResults.success
\* false.  Stated for runs with at least one trial, so that trial 0 exists.
C6_ValidatorFailureTolerated ==
  (iterations >= 1 /\ validator \in {"undef", "throws"}) =>
    /\ error \notin ValidatorFailures
    /\ pc = "returned" =>
         (SeriesComplete(metrics, iterations) /\ ~metrics.validationResults.success)

\* C7: when the export hook throws for a measured configuration, runTest still
\* returns the result of that configuration, unchanged: it does not reject and
\* its caller does not get an error result instead.  Stated for runs with at least
\* one trial.
C7_ExportFailureKeepsResult ==
  \A k \in DOMAIN hookLog :
    (iterations >= 1 /\ hookLog[k].threw) =>
      /\ ~(pc = "rejected" /\ cfg.size = hookLog[k].size)
      /\ \A j \in DOMAIN returns :
           returns[j].size = hookLog[k].size =>
             (returns[j].kind = "metrics" /\ returns[j].value = <<hookLog[k].metrics>>)

SizeIndex(size) == IndexOf(size, Sizes(runner))

\* C8: for every configuration that ran to completion the export hook was invoked
\* exactly once, with the result of that configuration, and the invocations of a
\* run are in the order the configurations were submitted.
C8_HookOncePerConfiguration ==
  /\ \A j \in DOMAIN returns :
       returns[j].kind = "metrics" =>
         /\ Cardinality({k \in DOMAIN hookLog : hookLog[k].size = returns[j].size}) = 1
         /\ \A k \in DOMAIN hookLog :
              hookLog[k].size = returns[j].size => <<hookLog[k].metrics>> = returns[j].value
  /\ \A k1, k2 \in DOMAIN hookLog :
       k1 < k2 => SizeIndex(hookLog[k1].size) <= SizeIndex(hookLog[k2].size)

\* C9: whenever the export hook writes for a just-completed configuration, the
\* data it writes ends with the result of that configuration and holds the result
\* of every configuration completed before it in the run.
C9_ExportWritesAllCompleted ==
  \A k \in DOMAIN hookLog :
    hookLog[k].wrote # <<>> =>
      LET data == hookLog[k].wrote[1]
      IN  /\ data # <<>>
          /\ Last(data) = hookLog[k].metrics
          /\ \A j \in DOMAIN returns :
               ( /\ returns[j].kind = "metrics"
                 /\ SizeIndex(returns[j].size) < SizeIndex(hookLog[k].size) ) =>
                 \E d \in DOMAIN data : <<data[d]>> = returns[j].value

\* C10: a validator that reports success false on trial 0 does not fail the run:
\* the result runTest returns has its full series, its statistics and speedup,
\* and validationResults with success false and the validator's discrepancies.
C10_ValidationFailureIsNotFatal ==
  \A k \in DOMAIN validatorLog :
    LET vr == shapeValidator(validatorLog[k].wasm, validatorLog[k].js)
    IN  (validator = "shape" /\ ~vr.success) =>
          /\ error \notin {"TypeError: validationResult is undefined", "validator threw"}
          /\ pc \in {"loop", "wasmAwait", "jsInvoke", "jsAwait", "export", "returned"} =>
               metrics.validationResults = [success |-> FALSE, discrepancies |-> vr.discrepancies]
          /\ pc = "returned" =>
               /\ SeriesComplete(metrics, iterations)
               /\ calls = [wasm |-> iterations, js |-> iterations]
               /\ metrics.wasmStats = calculateStats(metrics.wasmTimes)
               /\ metrics.jsStats = calculateStats(metrics.jsTimes)
               /\ metrics.speedup = speedupOf(metrics.jsStats, metrics.wasmStats)
               /\ Len(vr.discrepancies) > 0

C10_Witness ==
  /\ pc = "returned" /\ iterations = 2 /\ validator = "shape"
  /\ ~metrics.validationResults.success
  /\ metrics.validationResults.discrepancies = <<"Matrix dimensions do not match">>
  /\ Len(metrics.jsTimes) = 2

\* ---------------------------------------------- claims on the pure functions
\* the call was made and returned r
Returned(fn) == call.fn = fn /\ result # <<>>
IsFinite(q) == q.den > 0
AllEqual(s, v) == \A k \in DOMAIN s : s[k] = v

LessEq(x, y) == x.num * y.den <= y.num * x.den

\* C12: for every non-empty series calculateStats returns min <= mean <= max and
\* min <= median <= max.
C12_MeanAndMedianWithinRange ==
  (Returned("calculateStats") /\ call.times # <<>>) =>
    LET r == result[1]
    IN  /\ r.min # <<>> /\ r.max # <<>> /\ r.median # <<>>
        /\ IsFinite(r.mean)
        /\ LessEq(FromInt(r.min[1]), r.mean) /\ LessEq(r.mean, FromInt(r.max[1]))
        /\ r.min[1] <= r.median[1] /\ r.median[1] <= r.max[1]

\* v stands at index idx (from 0) of the ascending arrangement of the series s
StandsAt(v, idx, s) ==
  /\ Cardinality({k \in DOMAIN s : s[k] < v}) <= idx
  /\ Cardinality({k \in DOMAIN s : s[k] <= v}) > idx
  /\ \E k \in DOMAIN s : s[k] = v

C14_ConstantSeries ==
  \A v \in SampleValues :
    (Returned("calculateStats") /\ call.times # <<>> /\ AllEqual(call.times, v)) =>
      LET r == result[1]
      IN  /\ r.variance = FromInt(0)
          /\ r.mean = FromInt(v)
          /\ r.median = <<v>> /\ r.min = <<v>> /\ r.max = <<v>>
          /\ r.p95 = <<v>> /\ r.p99 = <<v>>

\* C15: calculateMemoryUsage returns the unavailable sentinel, with no figures,
\* when the measurement before or the one after is unavailable, and otherwise the
\* differences after - before of heapUsed, heapTotal, external and rss.
C15_MemoryUsage ==
  Returned("calculateMemoryUsage") =>
    LET r == result[1]
        before == call.before
        after == call.after
    IN  IF before.unavailable \/ after.unavailable
        THEN r.unavailable /\ DOMAIN r = {"unavailable"}
        ELSE /\ ~r.unavailable
             /\ r.heapUsed = after.heapUsed - before.heapUsed
             /\ r.heapTotal = after.heapTotal - before.heapTotal
             /\ r.external = after.external - before.external
             /\ r.rss = after.rss - before.rss

\* both branches: a sentinel before gives the sentinel; two measurements give the
\* differences, negative ones included
C15_Witness ==
  /\ Returned("calculateMemoryUsage")
  /\ call.before.unavailable /\ ~call.after.unavailable /\ call.after.heapUsed = 1
  /\ result[1] = [unavailable |-> TRUE]

C15_WitnessDifference ==
  /\ Returned("calculateMemoryUsage")
  /\ ~call.before.unavailable /\ ~call.after.unavailable
  /\ result[1].heapUsed = 0 - 1 /\ result[1].rss = 1

\* the largest number of discrepancies a validator is to report
DiscrepancyLimit == 5

\* C16: the discrepancies list a validator returns, and the one runTest stores
\* from it, holds at most 5 entries, whichever validator it is.
C16_DiscrepanciesBounded ==
  (Returned("validator") /\ ~result[1].returned.threw) =>
    /\ Len(result[1].returned.discrepancies) <= DiscrepancyLimit
    /\ Len(result[1].stored[1].discrepancies) <= DiscrepancyLimit

\* C17: success is true exactly when the discrepancies list is empty, in what a
\* validator returns and in the validationResults runTest stores from it.
C17_SuccessIffNoDiscrepancies ==
  (Returned("validator") /\ ~result[1].returned.threw) =>
    LET vr == result[1].returned
        stored == result[1].stored[1]
    IN  /\ vr.success <=> (vr.discrepancies = <<>>)
        /\ stored.success <=> (stored.discrepancies = <<>>)

\* an output that is there, of the shape the named validator works on: a number
\* for matrix, an array for fft, integration and csv, an array of rows for the
\* validator of runBenchmark
Absent(v) == v.kind \in {"undefined", "null"}
ExpectedShape(name, v) ==
  CASE name = "matrix" -> v.kind = "number"
    [] name = "runBenchmark" -> isArray(v) /\ \A k \in DOMAIN v.items : isArray(v.items[k])
    [] OTHER -> isArray(v)

\* C18: a validator given an output that is null or undefined, or not of the shape
\* it expects, returns (it does not throw) success false with at least one
\* discrepancy entry.
C18_MalformedOutputRejected ==
  ( /\ Returned("validator")
    /\ \E v \in {call.wasmResult, call.jsResult} :
         Absent(v) \/ ~ExpectedShape(call.name, v) ) =>
    /\ ~result[1].returned.threw
    /\ ~result[1].returned.success
    /\ Len(result[1].returned.discrepancies) >= 1

\* ------------------------------------------------------ claims on the runs
\* allResults is left as it is, or one result is appended at its end
AppendsOne(before, after) ==
  /\ Len(after) = Len(before) + 1
  /\ SubSeq(after, 1, Len(before)) = before
\* sub is what is left of all when some of its entries are taken out
RECURSIVE IsSubsequence(_, _)
IsSubsequence(sub, all) ==
  IF sub = <<>> THEN TRUE
  ELSE IF all = <<>> THEN FALSE
  ELSE IF Head(sub) = Head(all) THEN IsSubsequence(Tail(sub), Tail(all))
  ELSE IsSubsequence(sub, Tail(all))

C20_OneEnvironmentPerRun ==
  \A a, b \in DOMAIN envLog : envLog[a] = envLog[b]

\* ------------------------------------------- claims on configuration errors
\* C21: runBenchmark called with a size label other than small, medium or large
\* throws 'Invalid size' before any trial: runTest is not called, so that no
\* implementation is invoked and no result is produced or exported.
C21_InvalidSizeRejected ==
  (Returned("runBenchmark") /\ call.size \notin {"small", "medium", "large"}) =>
    /\ result[1].threw
    /\ result[1].error = "Invalid size: " \o call.size
    /\ result[1].runTest = <<>>

\* a result tagged as failed with the given message
TaggedFailed(v, message) ==
  /\ v.speedup = FromInt(0)
  /\ v.wasmTimes = <<>> /\ v.jsTimes = <<>> /\ v.wasmMemory = <<>> /\ v.jsMemory = <<>>
  /\ ~v.validationResults.success
  /\ v.validationResults.discrepancies = <<"Test execution failed: " \o message>>

\* C22: when an implementation fails, TestRunnerWithDatabase.runTest returns a
\* result tagged as failed (speedup 0, empty series, success false, one 'Test
\* execution failed' discrepancy), and the results of configurations that ran to
\* completion, those with a failed validation among them, differ from every tagged
\* result: their series are not empty.
C22_FailedResultTagged ==
  runner.class = "TestRunnerWithDatabase" =>
    \A k \in DOMAIN returns :
      /\ returns[k].error \in ImplementationFailures =>
           /\ returns[k].kind = "errorResult"
           /\ TaggedFailed(returns[k].value[1], returns[k].error)
      /\ returns[k].kind = "metrics" =>
           /\ Len(returns[k].value[1].wasmTimes) >= 1
           /\ \A j \in DOMAIN returns :
                returns[j].kind = "errorResult" => returns[j].value[1] # returns[k].value[1]

\* one configuration returned with a failed validation, the next one failed in an
\* implementation
C22_Witness ==
  /\ runner.class = "TestRunnerWithDatabase"
  /\ Len(returns) = 2
  /\ returns[1].kind = "metrics" /\ ~returns[1].value[1].validationResults.success
  /\ returns[2].kind = "errorResult" /\ returns[2].error = "wasm.runAlgorithm failed"
  /\ TaggedFailed(returns[2].value[1], "wasm.runAlgorithm failed")

\* ------------------------------------------------- claims on the export hook
\* C23: the engine awaits the export hook, asynchronous I/O included: a runTest
\* that has resolved has no export still pending, and no trial of a later
\* configuration runs, nor does the driver go on, while an export is pending.
C23_HookAwaited ==
  /\ \A k \in DOMAIN returns : returns[k].size \notin pendingExports
  /\ pc \in {"driver", "loop", "wasmAwait", "jsAwait", "done", "aborted"} => pendingExports = {}

\* C24: calculateStats does not mutate the caller's sequence: after the statistics
\* step the two timing series and the two memory series of the result hold their
\* elements in trial order, while the statistics are those of the sorted copy.
C24_SeriesKeepTrialOrder ==
  Returned("statistics") =>
    LET r == result[1]
    IN  /\ r.wasmTimes = call.wasmTimes
        /\ r.jsTimes = call.jsTimes
        /\ r.wasmMemory = heapSeries(call.wasmTimes)
        /\ r.jsMemory = heapSeries(call.jsTimes)
        /\ \A k \in DOMAIN r.wasmMemory : r.wasmMemory[k].heapUsed = call.wasmTimes[k]
        /\ call.wasmTimes # <<>> =>
             /\ \A k \in DOMAIN call.wasmTimes : r.wasmStats.min[1] <= call.wasmTimes[k]
             /\ \A k \in DOMAIN call.jsTimes : r.jsStats.max[1] >= call.jsTimes[k]

\* a series that is not in ascending order: the statistics saw it sorted, the
\* result holds it as it was
C24_Witness ==
  /\ Returned("statistics")
  /\ call.wasmTimes = <<4, 1>> /\ call.jsTimes = <<3, 2>>
  /\ result[1].wasmTimes = <<4, 1>> /\ result[1].jsTimes = <<3, 2>>
  /\ result[1].wasmStats.min = <<1>> /\ result[1].wasmStats.median = <<4>>
  /\ result[1].wasmMemory[1].heapUsed = 4 /\ result[1].wasmMemory[2].heapUsed = 1
  /\ result[1].wasmMemoryStats.min = <<1>>

\* ------------------------------------------------- claims on the database
\* the save the database is in, or the last one, counted from 1
CurrentSave == IF db.pc = "idle" THEN Len(db.log) ELSE Len(db.log) + 1

\* the COMMIT of that save succeeded
Committed ==
  /\ db.issued # <<>>
  /\ db.issued[Len(db.issued)].sql = "COMMIT"
  /\ db.issued[Len(db.issued)].ok

\* the positions in the stored rows of the rows of a table written by save s for
\* the result at position r
RowsOf(s, r, table) ==
  { k \in 1..Len(db.rows) :
      db.rows[k].save = s /\ db.rows[k].of = r /\ db.rows[k].table = table }

ExecutionTypes == {"wasm", "js"}

\* C25: a committed save stored, for each result of its benchmarkData, exactly one
\* test_runs row, one performance_stats row per implementation, one
\* memory_measurements row per memory sample of each implementation carrying the
\* sample's iteration index, and one validation_results row, every one of them
\* referring to the id of that test_runs row, an id no other test run has.
C25_RowsPerResult ==
  Committed =>
    \A r \in 1..Len(db.data[1].results) :
      LET res  == db.data[1].results[r]
          runs == RowsOf(CurrentSave, r, "test_runs")
      IN  /\ Cardinality(runs) = 1
          /\ \A t \in runs :
               /\ db.rows[t].id # 0
               /\ \A k \in 1..Len(db.rows) :
                    (db.rows[k].table = "test_runs" /\ db.rows[k].id = db.rows[t].id) => k = t
               /\ \A e \in ExecutionTypes :
                    /\ Cardinality({k \in RowsOf(CurrentSave, r, "performance_stats") :
                                      db.rows[k].type = e}) = 1
                    /\ Cardinality({k \in RowsOf(CurrentSave, r, "memory_measurements") :
                                      db.rows[k].type = e}) = Len(memoryData(res, e))
                    /\ \A n \in 0..(Len(memoryData(res, e)) - 1) :
                         Cardinality({k \in RowsOf(CurrentSave, r, "memory_measurements") :
                                        db.rows[k].type = e /\ db.rows[k].index = n}) = 1
               /\ Cardinality(RowsOf(CurrentSave, r, "validation_results")) = 1
               /\ \A k \in 1..Len(db.rows) :
                    (db.rows[k].save = CurrentSave /\ db.rows[k].of = r /\ k # t)
                      => db.rows[k].ref = db.rows[t].id

\* the second save committed two results, the first with two memory samples per
\* implementation, after a first save that committed a result as well
C25_Witness ==
  /\ Committed
  /\ CurrentSave = 2
  /\ Len(db.data[1].results) = 2
  /\ Len(db.data[1].results[1].wasmMemory) = 2
  /\ RowsOf(1, 1, "test_runs") # {}
  /\ Cardinality(RowsOf(2, 1, "memory_measurements")) = 4

\* the statements of the current save that were issued with the given sql text
Issued(sql) == { k \in 1..Len(db.issued) : db.issued[k].sql = sql }
InsertFailed == \E k \in Issued("INSERT") : ~ db.issued[k].ok

\* the INSERTs issued so far are, in order, a prefix of the INSERTs of the data,
\* each but possibly the last one successful
InsertsInOrder(n) ==
  /\ n <= Len(statements(db.data[1]))
  /\ \A k \in 1..n :
       /\ db.issued[k + 1].sql = "INSERT"
       /\ db.issued[k + 1].table = statements(db.data[1])[k].table
       /\ db.issued[k + 1].of = statements(db.data[1])[k].of
       /\ db.issued[k + 1].ok

\* the rows the server holds of the current save
Persisted == { k \in 1..Len(db.rows) : db.rows[k].save = CurrentSave }

\* the rows the server holds of a save are none or all: they are there only after
\* a COMMIT that succeeded, which was issued after a successful BEGIN and one
\* successful INSERT for each statement of the data; a failed INSERT is followed
\* by a ROLLBACK and by no COMMIT
C26_RowsAllOrNothing ==
  /\ \A k \in Issued("COMMIT") :
       /\ k = Len(statements(db.data[1])) + 2
       /\ db.issued[1].sql = "BEGIN" /\ db.issued[1].ok
       /\ InsertsInOrder(k - 2)
  /\ Persisted # {} => Committed /\ Cardinality(Persisted) = Len(statements(db.data[1]))
  /\ (InsertFailed /\ db.pc \in {"release", "idle"}) =>
       /\ Issued("ROLLBACK") # {}
       /\ Issued("COMMIT") = {}
       /\ Persisted = {}

\* C26: saveBenchmarkResults is all-or-nothing: COMMIT is issued only after the
\* environment, cpu and result rows were all inserted, and when an INSERT fails
\* ROLLBACK is issued, COMMIT is not, no row of the save is stored, and the call
\* rejects with the error of that INSERT.
C26_AllOrNothing ==
  /\ C26_RowsAllOrNothing
  /\ (InsertFailed /\ db.pc = "idle") =>
       /\ db.log[Len(db.log)].outcome = "rejected"
       /\ db.log[Len(db.log)].error = "INSERT failed"

\* the saves that ended after having acquired a client
EndedWithClient == { k \in 1..Len(db.log) : db.log[k].client }

\* C28: every client saveBenchmarkResults acquired from the pool is released
\* exactly once, on every path (commit, failed statement followed by ROLLBACK,
\* failed ROLLBACK): between two saves no client is out, during a save exactly one
\* is, and each save that acquired a client released one.
C28_ClientReleasedOnce ==
  /\ db.released <= db.acquired
  /\ db.pc = "idle" => db.released = db.acquired
  /\ db.pc # "idle" => db.acquired = db.released + 1
  /\ db.released = Cardinality(EndedWithClient)

\* two saves ended: the first lost its INSERT and its ROLLBACK, the second
\* committed; both clients are back in the pool
C28_Witness ==
  /\ db.pc = "idle"
  /\ Len(db.log) = 2
  /\ db.log[1].error = "ROLLBACK failed"
  /\ db.log[2].outcome = "resolved"
  /\ Committed
  /\ db.acquired = 2
  /\ db.released = 2

\* ------------------------------------------- claims on the collected results
\* the metrics of the hook invocations made by TestRunnerWithDatabase.runTest
RECURSIVE ExportedByRunTest(_)
ExportedByRunTest(log) ==
  IF log = <<>> THEN <<>>
  ELSE (IF log[1].from = "TestRunnerWithDatabase.runTest" THEN << log[1].metrics >> ELSE <<>>)
       \o ExportedByRunTest(Tail(log))

\* the metrics runTest returned to runCompleteBenchmark
RECURSIVE ReturnedMetrics(_)
ReturnedMetrics(rs) ==
  IF rs = <<>> THEN <<>>
  ELSE (IF rs[1].kind = "metrics" THEN rs[1].value ELSE <<>>) \o ReturnedMetrics(Tail(rs))

\* the results runCompleteBenchmark collected in this call, in order: every
\* measured configuration whose metrics runTest accepted.  With saveToJson each
\* of them was handed to exportResults by runTest, without it each was returned
Collected ==
  IF runner.saveToJson THEN ExportedByRunTest(hookLog) ELSE ReturnedMetrics(returns)

\* C27: when runCompleteBenchmark returns, allResults (the list it returns) is the
\* full list of the results collected in that call, unfiltered and in order,
\* whether the database save succeeded, failed or was skipped.
C27_ResultsSurviveSave ==
  (pc = "done" /\ runner.class = "TestRunnerWithDatabase") => allResults = Collected

\* runCompleteBenchmark returned after a database save that failed; the list it
\* returns holds a result the save had filtered out (speedup 0) and one it had
\* kept
C27_Witness ==
  /\ pc = "done"
  /\ runner.class = "TestRunnerWithDatabase"
  /\ runner.saveToDatabase
  /\ dbSaved = <<>>
  /\ Len(allResults) = 2
  /\ Len(validResults(allResults)) = 1

\* the elements of a sequence
Elements(s) == { s[k] : k \in DOMAIN s }

\* the metrics the engine computed for the configuration of the given size label,
\* as it handed them to the export hook
MetricsOf(size) ==
  { hookLog[h].metrics : h \in { j \in DOMAIN hookLog : hookLog[j].size = size } }

\* a result is in allResults, in the results of a JSON file written, or in the
\* data of a database save
Kept(m) ==
  \/ m \in Elements(allResults)
  \/ \E w \in DOMAIN writes : m \in Elements(writes[w])
  \/ \E d \in DOMAIN dbSaved : m \in Elements(dbSaved[d])

\* C29: a result TestRunnerWithDatabase.runTest rejects as invalid (speedup
\* undefined or NaN: it returns null) is never persisted: it is not in
\* allResults, in no JSON file written, and in no data sent to the database.
C29_InvalidNeverPersisted ==
  runner.class = "TestRunnerWithDatabase" =>
    \A k \in DOMAIN returns :
      returns[k].kind = "null" => \A m \in MetricsOf(returns[k].size) : ~Kept(m)

\* the same for runs of at least one trial
C29_WithTrials == iterations >= 1 => C29_InvalidNeverPersisted

\* ------------------------------------------------- claims on the summary
\* the algorithms of the call whose benchmark ran without error
RanWithoutError(outcomes) == { k \in DOMAIN outcomes : outcomes[k] = "completed" }

\* C30: the successfulTests reported by runAllTests and runAllTestsHeavy counts
\* only the algorithms whose benchmark ran without error; an algorithm whose
\* runSingleTest hit an error is not counted.
C30_SuccessfulCounted ==
  Returned("runAllTests") =>
    /\ result[1].totalTests = Len(call.outcomes)
    /\ result[1].successfulTests = Cardinality(RanWithoutError(call.outcomes))

\* what the two functions report: every algorithm is counted as successful
C30_AllCounted ==
  Returned("runAllTests") => result[1].successfulTests = result[1].totalTests

====
